---- MODULE Spec2Model ----
(***************************************************************************)
(* A model of the heartbeat backend (src/backend/main.go): the in-memory   *)
(* Store (history, last status, incidents), the prober pingService, the    *)
(* status handler that fans probes out and joins them, and the notifier    *)
(* doWebhook; with the confirmed e-mails and the rate limiter that the     *)
(* later revision of the backend (src/unnamed/part_001) adds to the Store. *)
(***************************************************************************)
EXTENDS Integers, Sequences, FiniteSets, TLC

VARIABLES
    cfg,        \* Config: PingRetries, PingRetryDelay, DegradedMs
    store,      \* Store: historyByID, lastStatusByID, incidents, mu
    clock,      \* time.Now().UnixMilli(), relative to the first observed instant
    calls,      \* number of Store.addCheck calls made since the first observed instant
    ret,        \* what the last completed Store.addCheck returned: <<>> (nil) or <<incident>>
    appended,   \* history variable: per target, every CheckResult ever handed to addCheck
    created,    \* history variable: every Incident ever created, in creation order
    requests,   \* the GET /api/v1/status handlers: position, projects, wg, response
    workers,    \* the pingService goroutines: position and locals
    notified,   \* the incidents handed to `go doWebhook`, in launch order
    serial,     \* history variable: the Store had the finished addCheck calls run one at a time
    clients,    \* the endpoint handlers inside the Store's other operations: position, arguments, result
    rateLog,    \* history variable: the rate limit in force and every allowAction call made
    disk,       \* the confirm store file and its .tmp sibling
    boot        \* the start of the process: its environment and how loadConfig ended

storeVars == <<store, calls, ret, appended, created>>
procVars == <<requests, workers, notified, serial>>
opVars == <<clients, rateLog, disk, boot>>
vars == <<cfg, clock, storeVars, procVars, opVars>>

(***************************************************************************)
(* Bounds of the model.                                                    *)
(***************************************************************************)
MaxClock == 1
MaxCalls == 2
MaxRateClock == 4
MaxRateCalls == 5
MaxSendMinutes == 1

(***************************************************************************)
(* Program constants.                                                      *)
(***************************************************************************)
HistoryCap == 500
IncidentCap == 200
DefaultDegradedMs == 1200
DefaultRetryDelayMs == 200
DefaultRetries == 1
MinRetries == 1
MaxRetries == 5
HttpErrorFloor == 400
DefaultTimeoutMs == 5000
MaxRetryDelayMs == 10000
DefaultTTLMinutes == 30
MinTTLMinutes == 5
MaxTTLMinutes == 1440
DefaultHistoryLimit == 48
MaxHistoryLimit == 500
DefaultIncidentsLimit == 50
MaxIncidentsLimit == 200
IPWindowMs == 60000
IPLimit == 10
EmailWindowMs == 600000
EmailLimit == 5

Targets == {"a", "b"}
Statuses == {"HEALTHY", "DEGRADED", "DOWN"}

\* The display name the datastore holds for a project id.
NameOf(id) == "svc-" \o id

Project(id) == [ID |-> id, Name |-> NameOf(id), Status |-> "", Latency |-> 0]

(***************************************************************************)
(* Go maps: a missing key reads as the zero value, a write adds the key.   *)
(***************************************************************************)
MapGet(m, k, zero) == IF k \in DOMAIN m THEN m[k] ELSE zero

MapPut(m, k, v) == [x \in DOMAIN m \cup {k} |-> IF x = k THEN v ELSE m[x]]

EmptyMap == [x \in {} |-> 0]

(***************************************************************************)
(* Store.addCheck, piece by piece.                                         *)
(***************************************************************************)
\* A trim that keeps the first 500 instead of the last 500.
appendHistory_KeepOldest(existing, check) ==
    LET e == Append(existing, check)
    IN  IF Len(e) > HistoryCap THEN SubSeq(e, 1, HistoryCap) ELSE e

\* existing = append(existing, check); keep the last 500.
appendHistory(existing, check) ==
    LET e == Append(existing, check)
    IN  IF Len(e) > HistoryCap THEN SubSeq(e, Len(e) - HistoryCap + 1, Len(e)) ELSE e

\* A switch with the two most common cases exchanged.
statusMessage_Exchanged(status) ==
    CASE status = "DOWN" -> "Service recovered"
      [] status = "HEALTHY" -> "Service went DOWN"
      [] status = "DEGRADED" -> "Service is DEGRADED"
      [] OTHER -> "Status changed"

statusMessage(status) ==
    CASE status = "DOWN" -> "Service went DOWN"
      [] status = "HEALTHY" -> "Service recovered"
      [] status = "DEGRADED" -> "Service is DEGRADED"
      [] OTHER -> "Status changed"

\* fmt.Sprintf("%d_%s_%s", now, project.ID, check.Status)
incidentID(now, id, status) == ToString(now) \o "_" \o id \o "_" \o status

\* A comparison that forgets the map lookup's ok.
isTransition_IgnoresOk(ok, prevStatus, status) == prevStatus # status

\* ok && prevStatus != check.Status
isTransition(ok, prevStatus, status) == ok /\ prevStatus # status

\* The Incident literal; time.Now() is read once for ID and once for TS.
newIncident(project, check, nowID, nowTS) ==
    [ID |-> incidentID(nowID, project.ID, check.Status),
     TS |-> nowTS,
     ProjectID |-> project.ID,
     ProjectName |-> project.Name,
     Status |-> check.Status,
     Message |-> statusMessage(check.Status)]

\* A trim that keeps the last 200 instead of the first 200.
prependIncident_DropsNewest(incidents, incident) ==
    LET l == <<incident>> \o incidents
    IN  IF Len(l) > IncidentCap THEN SubSeq(l, Len(l) - IncidentCap + 1, Len(l)) ELSE l

\* s.incidents = append([]Incident{incident}, s.incidents...); keep the first 200.
prependIncident(incidents, incident) ==
    LET l == <<incident>> \o incidents
    IN  IF Len(l) > IncidentCap THEN SubSeq(l, 1, IncidentCap) ELSE l

\* A table that is written on a target's first check only.
nextLastStatus_FirstCheckOnly(m, id, status) == IF id \in DOMAIN m THEN m ELSE MapPut(m, id, status)

\* s.lastStatusByID[project.ID] = check.Status
nextLastStatus(m, id, status) == MapPut(m, id, status)

\* The whole of Store.addCheck as one step (it runs under s.mu): the new Store
\* and the returned *Incident, <<>> for nil.
addCheck(s, project, check, nowID, nowTS) ==
    LET existing == appendHistory(MapGet(s.historyByID, project.ID, <<>>), check)
        ok == project.ID \in DOMAIN s.lastStatusByID
        prevStatus == MapGet(s.lastStatusByID, project.ID, "")
        s1 == [s EXCEPT !.historyByID = MapPut(@, project.ID, existing),
                        !.lastStatusByID = nextLastStatus(@, project.ID, check.Status)]
    IN  IF isTransition(ok, prevStatus, check.Status)
        THEN LET incident == newIncident(project, check, nowID, nowTS)
             IN  [store |-> [s1 EXCEPT !.incidents = prependIncident(@, incident)],
                  incident |-> <<incident>>]
        ELSE [store |-> s1, incident |-> <<>>]

(***************************************************************************)
(* The Store's read operations.                                            *)
(***************************************************************************)
\* limit <= 0 || limit > len(...) => limit = len(...)
clampLimit(limit, n) == IF limit <= 0 \/ limit > n THEN n ELSE limit

\* A result that is a view of the Store's own array.
copyOut_Alias(items) == [backing |-> "store", items |-> items]

\* out := make([]T, limit); copy(out, ...): the slice handed to the caller
\* has an array of its own.
copyOut(items) == [backing |-> "own", items |-> items]

\* A copy taken from the front of the history.
getHistory_FromFront(s, projectID, limit) ==
    LET h == MapGet(s.historyByID, projectID, <<>>)
    IN  SubSeq(h, 1, clampLimit(limit, Len(h)))

\* copy(out, h[len(h)-limit:])
getHistory(s, projectID, limit) ==
    LET h == MapGet(s.historyByID, projectID, <<>>)
        n == clampLimit(limit, Len(h))
    IN  SubSeq(h, Len(h) - n + 1, Len(h))

\* A copy taken from the tail of the incident list.
getIncidents_FromTail(s, limit) ==
    LET n == clampLimit(limit, Len(s.incidents))
    IN  SubSeq(s.incidents, Len(s.incidents) - n + 1, Len(s.incidents))

\* copy(out, s.incidents[:limit])
getIncidents(s, limit) == SubSeq(s.incidents, 1, clampLimit(limit, Len(s.incidents)))

(***************************************************************************)
(* The Store's confirmed e-mails and their file (later revision of the     *)
(* backend).                                                               *)
(***************************************************************************)
Emails == {"a@x.io", " A@x.io ", "b@x.io"}

\* strings.ToLower(strings.TrimSpace(email))
normalizeEmail(email) == IF email \in {" A@x.io ", "A@x.io"} THEN "a@x.io" ELSE email

isConfirmed(s, email) == normalizeEmail(email) \in DOMAIN s.confirmedEmails

\* s.confirmedEmails[...] = time.Now().UnixMilli()
markConfirmed(s, email, now) ==
    [s EXCEPT !.confirmedEmails = MapPut(@, normalizeEmail(email), now)]

\* A file under the confirm store path: missing, holding the whole JSON of a
\* map (json.MarshalIndent of map m, which json.Unmarshal reads back as m), or
\* holding bytes that are no JSON document (a write that stopped part-way).
Absent == [state |-> "absent", data |-> EmptyMap]
Truncated == [state |-> "partial", data |-> EmptyMap]
snapshot(m) == [state |-> "complete", data |-> m]

\* The two files, and two history variables: whether a read or write of this
\* Store's file has failed, and the e-mails given to markConfirmed or loaded.
NoDisk == [tmp |-> Absent, file |-> Absent, failed |-> FALSE, marked |-> {}]

\* What os.WriteFile(tmp, b, 0o600) can do: write all of b; fail after the file
\* was created or emptied (disk full, I/O error); fail to open it at all.
WriteOutcomes == {"ok", "partial", "none"}

\* b, _ := json.MarshalIndent(s.confirmedEmails, "", "  "); _ = os.WriteFile(tmp, b, 0o600)
writeTmp(s, d, wrote) ==
    CASE wrote = "ok" -> [d EXCEPT !.tmp = snapshot(s.confirmedEmails)]
      [] wrote = "partial" -> [d EXCEPT !.tmp = Truncated]
      [] wrote = "none" -> d

\* _ = os.Rename(tmp, s.confirmStorePath): it runs whatever the write returned,
\* and fails when there is no temporary file.
renameTmp(d, renamed) ==
    IF renamed /\ d.tmp.state # "absent"
    THEN [d EXCEPT !.file = d.tmp, !.tmp = Absent]
    ELSE d

\* The whole of persistConfirmedToDiskLocked; both results are dropped. wrote
\* and renamed say how each call ended.
persistConfirmedToDiskLocked(s, d, wrote, renamed) ==
    [renameTmp(writeTmp(s, d, wrote), renamed) EXCEPT
        !.failed = @ \/ wrote # "ok" \/ ~renamed]

\* A loader that takes the lock first and returns on an error without giving
\* it back.
loadConfirmedFromDisk_LocksFirst(s, d, readOK) ==
    IF ~readOK \/ d.file.state # "complete"
    THEN [s EXCEPT !.mu = <<0, 0>>]
    ELSE [s EXCEPT !.confirmedEmails =
            [n \in {normalizeEmail(k) : k \in DOMAIN d.file.data} |->
                d.file.data[CHOOSE k \in DOMAIN d.file.data : normalizeEmail(k) = n]]]

\* A loader that keeps the keys as the file spells them.
loadConfirmedFromDisk_KeepsRawKeys(s, d, readOK) ==
    IF ~readOK \/ d.file.state # "complete"
    THEN s
    ELSE [s EXCEPT !.confirmedEmails = d.file.data]

\* The whole of loadConfirmedFromDisk on a new Store: os.ReadFile fails on a
\* missing or unreadable file (readOK says whether a file that exists can be
\* read), json.Unmarshal fails on anything but a JSON object of numbers; both
\* return silently. Otherwise every key is stored trimmed and in lower case.
loadConfirmedFromDisk(s, d, readOK) ==
    IF ~readOK \/ d.file.state # "complete"
    THEN s
    ELSE [s EXCEPT !.confirmedEmails =
            [n \in {normalizeEmail(k) : k \in DOMAIN d.file.data} |->
                d.file.data[CHOOSE k \in DOMAIN d.file.data : normalizeEmail(k) = n]]]

(***************************************************************************)
(* The Store's sliding-window rate limiter (later revision of the backend).*)
(***************************************************************************)
\* A limit test that lets one call too many through.
bucketFull_OffByOne(filtered, limit) == Len(filtered) > limit

\* len(filtered) >= limit
bucketFull(filtered, limit) == Len(filtered) >= limit

\* A refusal that records its timestamp all the same.
refusedBucket_Records(filtered, now) == Append(filtered, now)

\* s.rateBuckets[key] = filtered; return false
refusedBucket(filtered, now) == filtered

\* The whole of Store.allowAction; now is read before the lock is taken.
allowAction(s, key, window, limit, now) ==
    LET cutoff == now - window
        items == MapGet(s.rateBuckets, key, <<>>)
        filtered == SelectSeq(items, LAMBDA ts : ts >= cutoff)
    IN  IF bucketFull(filtered, limit)
        THEN [store |-> [s EXCEPT !.rateBuckets = MapPut(@, key, refusedBucket(filtered, now))],
              ok |-> FALSE]
        ELSE [store |-> [s EXCEPT !.rateBuckets = MapPut(@, key, Append(filtered, now))],
              ok |-> TRUE]

\* NewStore()
NoOne == <<>>

NewStore == [historyByID |-> EmptyMap, lastStatusByID |-> EmptyMap,
             incidents |-> <<>>, confirmedEmails |-> EmptyMap,
             rateBuckets |-> EmptyMap, mu |-> NoOne]

(***************************************************************************)
(* pingService: the retry loop and the classification.                     *)
(***************************************************************************)
Latencies == {50, 1200}
Codes == {200, 503}
ErrTexts == {"timeout", "refused"}

\* What one client.Get can end in: a transport error (no response) or a
\* response with a status code; ms is time.Since(start).Milliseconds().
Outcomes ==
    [err : ErrTexts, code : {0}, ms : Latencies] \cup [err : {""}, code : Codes, ms : Latencies]

\* var lastErr error; var lastCode int; var latencyMs int64; attempt := 0
LoopStart == [attempt |-> 0, lastErr |-> "", lastCode |-> 0, latencyMs |-> 0,
              broke |-> FALSE, sleeping |-> FALSE]

\* A loop bound that is off by one.
loopRuns_OneMore(l, c) == ~l.broke /\ l.attempt <= c.PingRetries

\* attempt < cfg.PingRetries, and no break yet
loopRuns(l, c) == ~l.broke /\ l.attempt < c.PingRetries

\* A loop whose start := time.Now() stands before the for statement, so that
\* time.Since(start) covers the earlier attempts too.
attemptBody_StartBeforeLoop(l, o, c) ==
    LET code1 == IF o.err = "" THEN o.code ELSE l.lastCode
    IN  IF o.err = "" /\ o.code < HttpErrorFloor
        THEN [l EXCEPT !.latencyMs = @ + o.ms, !.lastCode = code1, !.lastErr = "",
                       !.broke = TRUE]
        ELSE IF l.attempt < c.PingRetries - 1 /\ c.PingRetryDelay > 0
             THEN [l EXCEPT !.latencyMs = @ + o.ms, !.lastCode = code1, !.lastErr = o.err,
                            !.sleeping = TRUE]
             ELSE [l EXCEPT !.latencyMs = @ + o.ms, !.lastCode = code1, !.lastErr = o.err,
                            !.attempt = @ + 1]

\* One pass of the loop body up to the sleep, for the attempt's outcome o.
attemptBody(l, o, c) ==
    LET code1 == IF o.err = "" THEN o.code ELSE l.lastCode
    IN  IF o.err = "" /\ o.code < HttpErrorFloor
        THEN [l EXCEPT !.latencyMs = o.ms, !.lastCode = code1, !.lastErr = "",
                       !.broke = TRUE]
        ELSE IF l.attempt < c.PingRetries - 1 /\ c.PingRetryDelay > 0
             THEN [l EXCEPT !.latencyMs = o.ms, !.lastCode = code1, !.lastErr = o.err,
                            !.sleeping = TRUE]
             ELSE [l EXCEPT !.latencyMs = o.ms, !.lastCode = code1, !.lastErr = o.err,
                            !.attempt = @ + 1]

\* time.Sleep(cfg.PingRetryDelay) returns; attempt++
afterSleep(l) == [l EXCEPT !.sleeping = FALSE, !.attempt = @ + 1]

\* A test that looks at the status code only.
isDown_IgnoresTransportError(l) == l.lastCode >= HttpErrorFloor

\* lastErr != nil || lastCode >= 400
isDown(l) == l.lastErr # "" \/ l.lastCode >= HttpErrorFloor

\* A threshold compared with > instead of >=.
classify_StrictThreshold(l, c) ==
    IF isDown(l) THEN "DOWN"
    ELSE IF l.latencyMs > c.DegradedMs THEN "DEGRADED" ELSE "HEALTHY"

\* p.Status after the loop
classify(l, c) ==
    IF isDown(l) THEN "DOWN"
    ELSE IF l.latencyMs >= c.DegradedMs THEN "DEGRADED" ELSE "HEALTHY"

\* A DOWN branch that keeps the measured latency.
finalLatency_KeepsMeasured(l) == l.latencyMs

\* p.Latency after the loop
finalLatency(l) == IF isDown(l) THEN 0 ELSE l.latencyMs

\* A DOWN branch that writes an error text for a rejected request too.
buildCheck_ErrorForHttpCode(l, c, now) ==
    [TS |-> now, Status |-> classify(l, c), LatencyMs |-> finalLatency(l),
     Code |-> l.lastCode,
     Error |-> IF ~isDown(l) THEN "" ELSE IF l.lastErr = "" THEN "bad status" ELSE l.lastErr]

\* A DOWN branch whose CheckResult literal carries the measured latency (the
\* slot is still zeroed).
buildCheck_MeasuredLatency(l, c, now) ==
    [TS |-> now, Status |-> classify(l, c), LatencyMs |-> l.latencyMs,
     Code |-> l.lastCode, Error |-> IF isDown(l) THEN l.lastErr ELSE ""]

\* The CheckResult literal of either branch; now is time.Now().UnixMilli().
buildCheck(l, c, now) ==
    [TS |-> now, Status |-> classify(l, c), LatencyMs |-> finalLatency(l),
     Code |-> l.lastCode, Error |-> IF isDown(l) THEN l.lastErr ELSE ""]

\* Every state in which the loop can end, from loop state l.
RECURSIVE loopExits(_, _)
loopExits(l, c) ==
    IF l.sleeping THEN loopExits(afterSleep(l), c)
    ELSE IF ~loopRuns(l, c) THEN {l}
    ELSE UNION {loopExits(attemptBody(l, o, c), c) : o \in Outcomes}

\* loadConfig with only the required variables set.
DefaultConfig == [PingRetries |-> DefaultRetries, PingRetryDelay |-> DefaultRetryDelayMs,
                  DegradedMs |-> DefaultDegradedMs,
                  WebhookURL |-> "", SlackWebhookURL |-> "", DiscordWebhookURL |-> "",
                  ConfirmTokenSecret |-> "dev-only-change-me",
                  PingTimeout |-> DefaultTimeoutMs,
                  ConfirmTokenTTLMinutes |-> DefaultTTLMinutes]

\* The CheckResults a probe under config c can hand to addCheck at time now.
probeResults(c, now) == {buildCheck(l, c, now) : l \in loopExits(LoopStart, c)}

(***************************************************************************)
(* The status handlers and their pingService goroutines.                   *)
(***************************************************************************)
Requests == {1, 2}

\* The project lists the datastore can answer with (ids are unique in a list).
ProjectLists == {<<>>, <<Project("a")>>, <<Project("a"), Project("b")>>}

\* What the datastore holds when request r fetches the list: up to two projects
\* for the first request, at most one for the request that overlaps it.
ListsFor(r) == IF r = 1 THEN ProjectLists ELSE {ps \in ProjectLists : Len(ps) <= 1}

\* One goroutine per request and index of its project list.
Workers ==
    UNION {UNION {{<<r, i>> : i \in 1..Len(ps)} : ps \in ListsFor(r)} : r \in Requests}

NoCheck == [TS |-> 0, Status |-> "", LatencyMs |-> 0, Code |-> 0, Error |-> ""]

\* History variable of one probe: the attempts made, the last outcome, how
\* many attempts failed, how many of those by a response with a code >= 400,
\* the retry delays slept, and the time spent in attempts and delays together.
NoOutcome == [err |-> "", code |-> 0, ms |-> 0]
NothingSeen == [n |-> 0, last |-> NoOutcome, failed |-> 0, rejected |-> 0, sleeps |-> 0,
                elapsed |-> 0]

IdleWorker == [pc |-> "idle", l |-> LoopStart, seen |-> NothingSeen, check |-> NoCheck,
               existing |-> <<>>, prevStatus |-> "", ok |-> FALSE,
               incident |-> <<>>, nowID |-> 0, nowTS |-> 0, recorded |-> <<>>,
               orphaned |-> FALSE]

\* fetch is what the datastore answered (history variable); connected is
\* whether the caller still holds the connection.
NoFetch == [err |-> FALSE, code |-> 0, projects |-> <<>>]

IdleRequest == [pc |-> "idle", projects |-> <<>>, next |-> 1, wg |-> 0,
                code |-> 0, body |-> <<>>, fetch |-> NoFetch, connected |-> TRUE]

failedAttempt(o) == o.err # "" \/ o.code >= HttpErrorFloor

\* Goroutines that were all handed the address of one loop variable, which
\* ends on the last project.
slotOf_SharedLoopVariable(w) == Len(requests[w[1]].projects)

\* The index of the slot a worker was handed: go pingService(&projects[i], ...)
slotOf(w) == w[2]

\* The *Project a worker was started on: &projects[i] of its request.
projectOf(w) == requests[w[1]].projects[slotOf(w)]

\* resp, err := client.Get(p.URL) returns with outcome o; the loop body runs up
\* to the sleep or the next pass.
Attempt(w, o) ==
    /\ workers[w].pc = "loop"
    /\ loopRuns(workers[w].l, cfg)
    /\ LET l1 == attemptBody(workers[w].l, o, cfg)
       IN  workers' = [workers EXCEPT
                ![w].l = l1,
                ![w].pc = IF l1.sleeping THEN "sleep" ELSE "loop",
                ![w].seen = [@ EXCEPT !.n = @ + 1, !.last = o, !.elapsed = @ + o.ms,
                                     !.failed = IF failedAttempt(o) THEN @ + 1 ELSE @,
                                     !.rejected = IF o.err = "" /\ failedAttempt(o)
                                                  THEN @ + 1 ELSE @]]
    /\ UNCHANGED <<cfg, opVars, clock, storeVars, requests, notified, serial>>

\* time.Sleep(cfg.PingRetryDelay) returns.
Sleep(w) ==
    /\ workers[w].pc = "sleep"
    /\ workers' = [workers EXCEPT ![w].l = afterSleep(@), ![w].pc = "loop",
                                  ![w].seen.sleeps = @ + 1,
                                  ![w].seen.elapsed = @ + cfg.PingRetryDelay]
    /\ UNCHANGED <<cfg, opVars, clock, storeVars, requests, notified, serial>>

\* After the loop: p.Status, p.Latency and the CheckResult are set.
Classify(w) ==
    /\ workers[w].pc = "loop"
    /\ ~loopRuns(workers[w].l, cfg)
    /\ workers' = [workers EXCEPT ![w].check = buildCheck(workers[w].l, cfg, clock),
                                  ![w].pc = "lock"]
    /\ requests' = [requests EXCEPT
            ![w[1]].projects[slotOf(w)].Status = classify(workers[w].l, cfg),
            ![w[1]].projects[slotOf(w)].Latency = finalLatency(workers[w].l)]
    /\ UNCHANGED <<cfg, opVars, clock, storeVars, notified, serial>>

(***************************************************************************)
(* Store.addCheck as the goroutine runs it, statement by statement.        *)
(***************************************************************************)
\* A mutex that excludes no one.
mutexFree_NoExclusion(s) == TRUE

\* s.mu.Lock() returns only when no one holds s.mu. (The loop's locals are not
\* read again: the model forgets them here.)
mutexFree(s) == s.mu = NoOne

Lock(w) ==
    /\ workers[w].pc = "lock"
    /\ mutexFree(store)
    /\ store' = [store EXCEPT !.mu = w]
    /\ workers' = [workers EXCEPT ![w].pc = "append", ![w].l = LoopStart,
                                  ![w].seen = NothingSeen]
    /\ UNCHANGED <<cfg, opVars, clock, calls, ret, appended, created, requests, notified, serial>>

\* existing := s.historyByID[project.ID]; append; trim
ReadAppend(w) ==
    /\ workers[w].pc = "append"
    /\ workers' = [workers EXCEPT
            ![w].existing = appendHistory(MapGet(store.historyByID, projectOf(w).ID, <<>>),
                                          workers[w].check),
            ![w].pc = "write"]
    /\ UNCHANGED <<cfg, opVars, clock, storeVars, requests, notified, serial>>

\* s.historyByID[project.ID] = existing
WriteHistory(w) ==
    /\ workers[w].pc = "write"
    /\ store' = [store EXCEPT
            !.historyByID = MapPut(@, projectOf(w).ID, workers[w].existing)]
    /\ appended' = [appended EXCEPT ![projectOf(w).ID] = Append(@, workers[w].check)]
    /\ workers' = [workers EXCEPT ![w].pc = "prev",
                                  ![w].recorded = Append(@, workers[w].check)]
    /\ UNCHANGED <<cfg, opVars, clock, calls, ret, created, requests, notified, serial>>

\* prevStatus, ok := s.lastStatusByID[project.ID]
ReadPrev(w) ==
    /\ workers[w].pc = "prev"
    /\ workers' = [workers EXCEPT
            ![w].prevStatus = MapGet(store.lastStatusByID, projectOf(w).ID, ""),
            ![w].ok = projectOf(w).ID \in DOMAIN store.lastStatusByID,
            ![w].pc = "last"]
    /\ UNCHANGED <<cfg, opVars, clock, storeVars, requests, notified, serial>>

\* s.lastStatusByID[project.ID] = check.Status
WriteLast(w) ==
    /\ workers[w].pc = "last"
    /\ store' = [store EXCEPT
            !.lastStatusByID = nextLastStatus(@, projectOf(w).ID, workers[w].check.Status)]
    /\ workers' = [workers EXCEPT ![w].pc = "incident"]
    /\ UNCHANGED <<cfg, opVars, clock, calls, ret, appended, created, requests, notified, serial>>

\* if ok && prevStatus != check.Status { build the incident, prepend, trim }
MakeIncident(w) ==
    /\ workers[w].pc = "incident"
    /\ IF isTransition(workers[w].ok, workers[w].prevStatus, workers[w].check.Status)
       THEN \E nowTS \in {t \in {clock, clock + 1} : t <= MaxClock} :
              LET incident == newIncident(projectOf(w), workers[w].check, clock, nowTS)
              IN  /\ store' = [store EXCEPT !.incidents = prependIncident(@, incident)]
                  /\ created' = Append(created, incident)
                  /\ workers' = [workers EXCEPT ![w].incident = <<incident>>,
                                                ![w].nowID = clock, ![w].nowTS = nowTS,
                                                ![w].pc = "unlock"]
                  /\ clock' = nowTS
       ELSE /\ workers' = [workers EXCEPT ![w].pc = "unlock"]
            /\ UNCHANGED <<store, created, clock>>
    /\ UNCHANGED <<cfg, opVars, calls, ret, appended, requests, notified, serial>>

\* The deferred s.mu.Unlock() and the return of the *Incident.
Unlock(w) ==
    /\ workers[w].pc = "unlock"
    /\ store' = [store EXCEPT !.mu = NoOne]
    /\ ret' = workers[w].incident
    /\ calls' = calls + 1
    /\ serial' = addCheck(serial, projectOf(w), workers[w].check,
                          workers[w].nowID, workers[w].nowTS).store
    /\ workers' = [workers EXCEPT ![w].pc = "finish"]
    /\ UNCHANGED <<cfg, opVars, clock, appended, created, requests, notified>>

(***************************************************************************)
(* doWebhook: one goroutine per incident, posting to the generic, the      *)
(* Slack and the Discord webhook in turn.                                  *)
(***************************************************************************)
\* What the three webhook variables of the environment can hold.
EnvURLs == {"", "  ", "https://hooks.example/in", " https://hooks.example/in ", "http://[bad"}

\* strings.TrimSpace on those values (and on the other texts it is applied to)
trimSpace(url) ==
    CASE url = "  " -> ""
      [] url = " https://hooks.example/in " -> "https://hooks.example/in"
      [] url = " A@x.io " -> "A@x.io"
      [] url = " 30 " -> "30"
      [] url = " a " -> "a"
      [] OTHER -> url

\* http.NewRequest returns an error for a URL that does not parse.
newRequestFails(url) == url = "http://[bad"

Sinks == {"generic", "slack", "discord"}

sinkURL(c, sink) ==
    CASE sink = "generic" -> c.WebhookURL
      [] sink = "slack" -> c.SlackWebhookURL
      [] sink = "discord" -> c.DiscordWebhookURL

\* Whether doWebhook reaches client.Do for the sink: the chat sinks are skipped
\* on an empty URL, and post returns early on a blank or unparseable one.
reachesPost(c, sink) ==
    LET url == sinkURL(c, sink)
    IN  /\ sink # "generic" => url # ""
        /\ trimSpace(url) # ""
        /\ ~newRequestFails(url)

\* What client.Do(req) can end in; the result is dropped.
PostOutcomes == {"2xx", "5xx", "error", "timeout"}

\* A notifier that gives up after a failed POST.
afterPost_StopsOnFailure(sink, outcome) ==
    IF outcome \in {"5xx", "error", "timeout"} THEN "done"
    ELSE CASE sink = "generic" -> "slack"
           [] sink = "slack" -> "discord"
           [] sink = "discord" -> "done"

\* Where doWebhook goes on after the sink, whatever the POST ended in.
afterPost(sink, outcome) ==
    CASE sink = "generic" -> "slack"
      [] sink = "slack" -> "discord"
      [] sink = "discord" -> "done"

\* A notifier that is started for DOWN incidents only.
launchWebhook_DownOnly(incident) ==
    IF incident = <<>> \/ incident[1].Status # "DOWN" THEN <<>>
    ELSE <<[incident |-> incident[1], pc |-> "generic", posts |-> <<>>]>>

\* go doWebhook(cfg, *incident), when addCheck returned an incident
launchWebhook(incident) ==
    IF incident = <<>> THEN <<>>
    ELSE <<[incident |-> incident[1], pc |-> "generic", posts |-> <<>>]>>

\* doWebhook number n deals with its next sink; o is what the POST ends in.
WebhookStep(n, o) ==
    /\ n \in 1..Len(notified)
    /\ notified[n].pc \in Sinks
    /\ LET sink == notified[n].pc
       IN  IF reachesPost(cfg, sink)
           THEN notified' = [notified EXCEPT
                    ![n].posts = Append(@, [sink |-> sink, url |-> sinkURL(cfg, sink),
                                            outcome |-> o]),
                    ![n].pc = afterPost(sink, o)]
           ELSE notified' = [notified EXCEPT ![n].pc = afterPost(sink, "none")]
    /\ UNCHANGED <<cfg, opVars, clock, storeVars, requests, workers, serial>>

\* A DOWN branch that returns without the wg.Done().
wgAfterDone_NotWhenDown(wg, status) == IF status = "DOWN" THEN wg ELSE wg - 1

\* defer wg.Done(): the counter once pingService has returned, on either branch.
wgAfterDone(wg, status) == wg - 1

\* if incident != nil { go doWebhook(cfg, *incident) }; the deferred wg.Done()
Finish(w) ==
    /\ workers[w].pc = "finish"
    /\ notified' = notified \o launchWebhook(workers[w].incident)
    /\ requests' = [requests EXCEPT
            ![w[1]].wg = wgAfterDone(@, projectOf(w).Status)]
    /\ workers' = [workers EXCEPT ![w] = [IdleWorker EXCEPT
            !.pc = "done", !.recorded = workers[w].recorded,
            !.orphaned = workers[w].orphaned]]
    /\ UNCHANGED <<cfg, opVars, clock, storeVars, serial>>

(***************************************************************************)
(* loadConfig (later revision of the backend, which adds the confirmation  *)
(* settings) and the start of the process.                                 *)
(***************************************************************************)
\* The decimal texts the environment is given, with their values.
Numerals ==
    {[s |-> "-1", v |-> -1], [s |-> "0", v |-> 0], [s |-> "1", v |-> 1],
     [s |-> "2", v |-> 2],
     [s |-> "4", v |-> 4], [s |-> "5", v |-> 5], [s |-> "6", v |-> 6],
     [s |-> "200", v |-> 200], [s |-> "201", v |-> 201],
     [s |-> "500", v |-> 500], [s |-> "501", v |-> 501],
     [s |-> "30", v |-> 30], [s |-> "250", v |-> 250], [s |-> "800", v |-> 800],
     [s |-> "1440", v |-> 1440], [s |-> "1441", v |-> 1441],
     [s |-> "10000", v |-> 10000], [s |-> "10001", v |-> 10001]}

\* strconv.Atoi: the value of a decimal text; an error for anything else (a
\* word, a fraction, a text with blanks around it, the empty text).
atoi(s) ==
    IF \E n \in Numerals : n.s = s
    THEN [ok |-> TRUE, val |-> (CHOOSE n \in Numerals : n.s = s).v]
    ELSE [ok |-> FALSE, val |-> 0]

\* The pattern of every numeric setting: the default when the variable is
\* empty, else Atoi and the test err != nil || v < lo || v > hi.
intSetting(text, default, lo, hi) ==
    IF text = "" THEN [ok |-> TRUE, val |-> default]
    ELSE LET a == atoi(text)
         IN  IF ~a.ok \/ a.val < lo \/ a.val > hi
             THEN [ok |-> FALSE, val |-> 0]
             ELSE [ok |-> TRUE, val |-> a.val]

\* The same with the test err != nil || v <= 0.
positiveSetting(text, default) ==
    IF text = "" THEN [ok |-> TRUE, val |-> default]
    ELSE LET a == atoi(text)
         IN  IF ~a.ok \/ a.val <= 0
             THEN [ok |-> FALSE, val |-> 0]
             ELSE [ok |-> TRUE, val |-> a.val]

\* A test of PING_RETRIES that has the upper bound only.
retriesSetting_NoLowerBound(text) ==
    IF text = "" THEN [ok |-> TRUE, val |-> DefaultRetries]
    ELSE LET a == atoi(text)
         IN  IF ~a.ok \/ a.val > MaxRetries
             THEN [ok |-> FALSE, val |-> 0]
             ELSE [ok |-> TRUE, val |-> a.val]

\* retries < 1 || retries > 5
retriesSetting(text) == intSetting(text, DefaultRetries, MinRetries, MaxRetries)

\* Config{}
ZeroConfig == [PingRetries |-> 0, PingRetryDelay |-> 0, DegradedMs |-> 0,
               WebhookURL |-> "", SlackWebhookURL |-> "", DiscordWebhookURL |-> "",
               ConfirmTokenSecret |-> "", PingTimeout |-> 0, ConfirmTokenTTLMinutes |-> 0]

\* return Config{}, fmt.Errorf(text)
configError(text) == [err |-> text, cfg |-> ZeroConfig]

\* The whole of loadConfig on the environment env (a record of the variables'
\* texts); err is "" for a nil error. Durations are in milliseconds.
loadConfig(env) ==
    LET timeout == positiveSetting(env.PING_TIMEOUT_MS, DefaultTimeoutMs)
        retries == retriesSetting(env.PING_RETRIES)
        delay == intSetting(env.PING_RETRY_DELAY_MS, DefaultRetryDelayMs, 0, MaxRetryDelayMs)
        degraded == positiveSetting(env.DEGRADED_LATENCY_MS, DefaultDegradedMs)
        secret == trimSpace(env.CONFIRM_TOKEN_SECRET)
        ttl == intSetting(trimSpace(env.CONFIRM_TOKEN_TTL_MINUTES), DefaultTTLMinutes,
                          MinTTLMinutes, MaxTTLMinutes)
    IN  IF env.SUPABASE_URL = "" \/ env.SUPABASE_ANON_KEY = ""
        THEN configError("missing SUPABASE_URL or SUPABASE_ANON_KEY")
        ELSE IF ~timeout.ok THEN configError("invalid PING_TIMEOUT_MS")
        ELSE IF ~retries.ok THEN configError("invalid PING_RETRIES")
        ELSE IF ~delay.ok THEN configError("invalid PING_RETRY_DELAY_MS")
        ELSE IF ~degraded.ok THEN configError("invalid DEGRADED_LATENCY_MS")
        ELSE IF ~ttl.ok THEN configError("invalid CONFIRM_TOKEN_TTL_MINUTES")
        ELSE [err |-> "",
              cfg |-> [PingRetries |-> retries.val, PingRetryDelay |-> delay.val,
                       DegradedMs |-> degraded.val,
                       WebhookURL |-> trimSpace(env.WEBHOOK_URL),
                       SlackWebhookURL |-> trimSpace(env.SLACK_WEBHOOK_URL),
                       DiscordWebhookURL |-> trimSpace(env.DISCORD_WEBHOOK_URL),
                       ConfirmTokenSecret |-> IF secret = "" THEN "dev-only-change-me"
                                              ELSE secret,
                       PingTimeout |-> timeout.val,
                       ConfirmTokenTTLMinutes |-> ttl.val]]

\* The environments the process is started in.
Envs ==
    [SUPABASE_URL : {"", "https://db.example"},
     SUPABASE_ANON_KEY : {"", "key"},
     PING_TIMEOUT_MS : {"", "0", "250"},
     PING_RETRIES : {"", "0", "1", "5", "6", "two"},
     PING_RETRY_DELAY_MS : {"", "-1", "0", "10000", "10001"},
     DEGRADED_LATENCY_MS : {"", "0", "800"},
     WEBHOOK_URL : {""}, SLACK_WEBHOOK_URL : {""}, DISCORD_WEBHOOK_URL : {""},
     CONFIRM_TOKEN_SECRET : {""},
     CONFIRM_TOKEN_TTL_MINUTES : {"", "  ", "4", "5", " 30 ", "1440", "1441", "2.5"}]

\* main: cfg, err := loadConfig(); if err != nil { panic(err) }; only then are
\* the routes registered and r.Run called.
LoadConfig ==
    /\ boot.pc = "start"
    /\ LET r == loadConfig(boot.env)
       IN  /\ cfg' = r.cfg
           /\ boot' = [boot EXCEPT !.pc = IF r.err = "" THEN "serving" ELSE "exited",
                                   !.err = r.err]
    /\ UNCHANGED <<clock, storeVars, procVars, clients, rateLog, disk>>

(***************************************************************************)
(* Confirmation tokens (later revision of the backend). A token is the     *)
(* base64url text of the payload's JSON, a dot, and the base64url text of  *)
(* the HMAC-SHA256 of the first part.                                      *)
(***************************************************************************)
\* ConfirmTokenPayload{}
NoPayload == [Email |-> "", Username |-> "", Exp |-> 0, Nonce |-> ""]

TokenEmails == {" A@x.io ", "b@x.io", "  "}
Expiries == {0, 2, 4}
Payloads == [Email : TokenEmails, Username : {"u"}, Exp : Expiries, Nonce : {"n"}]

\* base64.RawURLEncoding.EncodeToString(json.Marshal(payload)): a text that
\* decodes to the JSON of the payload.
encodePayload(p) == [form |-> "b64json", payload |-> p]

\* The texts a first part can be: the encoding of a payload, base64url of
\* bytes that are no JSON object, or no base64url at all.
MsgStrings ==
    {encodePayload(p) : p \in Payloads}
        \cup [form : {"b64text", "notb64"}, payload : {NoPayload}]

\* base64.RawURLEncoding.DecodeString(msg), then json.Unmarshal(raw, &p)
decodePayload(msg) == [ok |-> msg.form = "b64json", payload |-> msg.payload]

\* hmac.New(sha256.New, []byte(secret)) over msg: two MACs are equal only when
\* key and message are.
hmacSha256(secret, msg) == [key |-> secret, over |-> msg]

\* base64.RawURLEncoding.EncodeToString(mac.Sum(nil)): the 32 bytes fill 43
\* characters, the last of which has two unused bits, written as zero.
encodeSig(bytes) == [bytes |-> bytes, spare |-> 0, valid |-> TRUE]

\* base64.RawURLEncoding.DecodeString(sig): the encoding is not Strict(), so
\* the unused bits of the last character are not looked at (nor are line
\* breaks); valid is whether the text is base64url at all.
decodeSig(sig) == [ok |-> sig.valid, bytes |-> sig.bytes]

\* msg + "." + sig (the number of dot-separated parts is kept beside them)
signConfirmToken(secret, payload) ==
    LET msg == encodePayload(payload)
    IN  [parts |-> 2, msg |-> msg, sig |-> encodeSig(hmacSha256(secret, msg))]

\* return ConfirmTokenPayload{}, false
Rejected == [ok |-> FALSE, payload |-> NoPayload]

\* A verifier without the test of the expiry.
verifyConfirmToken_IgnoresExpiry(secret, token, now) ==
    LET got == decodeSig(token.sig)
        raw == decodePayload(token.msg)
    IN  IF token.parts # 2 THEN Rejected
        ELSE IF ~got.ok \/ got.bytes # hmacSha256(secret, token.msg) THEN Rejected
        ELSE IF ~raw.ok THEN Rejected
        ELSE IF trimSpace(raw.payload.Email) = "" THEN Rejected
        ELSE [ok |-> TRUE, payload |-> raw.payload]

\* verifyConfirmToken; now is time.Now().Unix().
verifyConfirmToken(secret, token, now) ==
    LET got == decodeSig(token.sig)
        raw == decodePayload(token.msg)
    IN  IF token.parts # 2 THEN Rejected
        ELSE IF ~got.ok \/ got.bytes # hmacSha256(secret, token.msg) THEN Rejected
        ELSE IF ~raw.ok THEN Rejected
        ELSE IF raw.payload.Exp <= 0 \/ now > raw.payload.Exp THEN Rejected
        ELSE IF trimSpace(raw.payload.Email) = "" THEN Rejected
        ELSE [ok |-> TRUE, payload |-> raw.payload]

(***************************************************************************)
(* The other Store operations as the endpoint handlers run them: take the  *)
(* lock, run the body, release the lock on return.                         *)
(***************************************************************************)
Clients == {<<0, 1>>, <<0, 2>>}

\* The client whose calls are followed as whole calls.
Reader == <<0, 1>>

Keys == {"confirm:ip:1", "confirm:email:a"}

IdleClient == [pc |-> "idle", op |-> "", arg |-> "", limit |-> 0, now |-> 0, out |-> <<>>]

\* The rate limit of a call site, in clock units: at most limit calls a window.
NoRateLog == [window |-> 0, limit |-> 0, calls |-> <<>>]
ConfirmPolicy == [window |-> 2, limit |-> 1]

\* The calls the handlers make: operation, string argument, limit argument.
ClientCalls ==
    [op : {"getHistory"}, arg : {"a"}, limit : {1}]
        \cup [op : {"getIncidents"}, arg : {""}, limit : {1}]
        \cup [op : {"isConfirmed", "markConfirmed"}, arg : {" A@x.io "}, limit : {0}]
        \cup [op : {"allowAction"}, arg : {"confirm:ip:1"}, limit : {rateLog.limit}]

\* The handler calls the operation; allowAction reads time.Now() first.
ClientCall(c, call) ==
    /\ clients[c].pc = "idle"
    /\ clients' = [clients EXCEPT ![c] = [IdleClient EXCEPT
            !.pc = "lock", !.op = call.op, !.arg = call.arg, !.limit = call.limit,
            !.now = IF call.op = "allowAction" THEN clock ELSE 0]]
    /\ UNCHANGED <<cfg, boot, clock, storeVars, procVars, rateLog, disk>>

\* s.mu.Lock()
ClientLock(c) ==
    /\ clients[c].pc = "lock"
    /\ mutexFree(store)
    /\ store' = [store EXCEPT !.mu = c]
    /\ clients' = [clients EXCEPT ![c].pc = "body"]
    /\ UNCHANGED <<cfg, boot, clock, calls, ret, appended, created, procVars, rateLog, disk>>

\* The body of the operation, run while holding s.mu.
ClientBody(c) ==
    /\ clients[c].pc = "body"
    /\ LET me == clients[c]
       IN  CASE me.op = "getHistory" ->
                  /\ clients' = [clients EXCEPT ![c].pc = "unlock",
                                    ![c].out = getHistory(store, me.arg, me.limit)]
                  /\ UNCHANGED <<store, rateLog, disk>>
             [] me.op = "getIncidents" ->
                  /\ clients' = [clients EXCEPT ![c].pc = "unlock",
                                    ![c].out = getIncidents(store, me.limit)]
                  /\ UNCHANGED <<store, rateLog, disk>>
             [] me.op = "isConfirmed" ->
                  /\ clients' = [clients EXCEPT ![c].pc = "unlock",
                                    ![c].out = isConfirmed(store, me.arg)]
                  /\ UNCHANGED <<store, rateLog, disk>>
             [] me.op = "markConfirmed" ->
                  /\ clients' = [clients EXCEPT ![c].pc = "unlock"]
                  /\ store' = markConfirmed(store, me.arg, clock)
                  /\ \E wrote \in WriteOutcomes, renamed \in BOOLEAN :
                        disk' = [persistConfirmedToDiskLocked(store', disk, wrote, renamed)
                                    EXCEPT !.marked = @ \cup {me.arg}]
                  /\ UNCHANGED rateLog
             [] me.op = "allowAction" ->
                  LET r == allowAction(store, me.arg, rateLog.window, me.limit, me.now)
                  IN  /\ clients' = [clients EXCEPT ![c].pc = "unlock", ![c].out = r.ok]
                      /\ store' = r.store
                      /\ rateLog' = [rateLog EXCEPT !.calls =
                              Append(@, [key |-> me.arg, now |-> me.now, ok |-> r.ok])]
                      /\ UNCHANGED disk
    /\ UNCHANGED <<cfg, boot, clock, calls, ret, appended, created, procVars>>

\* An early return that forgets the lock.
deferredUnlock_NotOnRefusal(holder, op, out) ==
    IF op = "allowAction" /\ out = FALSE THEN holder ELSE NoOne

\* defer s.mu.Unlock(): who holds s.mu once the operation has returned.
deferredUnlock(holder, op, out) == NoOne

\* The operation returns; the deferred s.mu.Unlock() runs.
ClientUnlock(c) ==
    /\ clients[c].pc = "unlock"
    /\ store' = [store EXCEPT !.mu = deferredUnlock(c, clients[c].op, clients[c].out)]
    /\ clients' = [clients EXCEPT ![c].pc = "done"]
    /\ UNCHANGED <<cfg, boot, clock, calls, ret, appended, created, procVars, rateLog, disk>>

ClientStep(c) ==
    \/ \E call \in ClientCalls : ClientCall(c, call)
    \/ ClientLock(c)
    \/ ClientBody(c)
    \/ ClientUnlock(c)

\* A process that got past loadConfig and serves; the environment it read is
\* left open.
Booted == [pc |-> "serving", env |-> <<>>, err |-> ""]

\* No handler is inside a Store operation.
InitOps ==
    /\ boot = Booted
    /\ clients = [c \in Clients |-> IdleClient]
    /\ rateLog = [window |-> ConfirmPolicy.window, limit |-> ConfirmPolicy.limit,
                  calls |-> <<>>]
    /\ disk = NoDisk

(***************************************************************************)
(* GET /api/v1/status.                                                     *)
(***************************************************************************)
\* What client.Do(req) on the datastore can end in for request r.
FetchResults(r) ==
    [err : {TRUE}, code : {0}, projects : {<<>>}]
        \cup [err : {FALSE}, code : {304, 503}, projects : {<<>>}]
        \cup [err : {FALSE}, code : {200}, projects : ListsFor(r)]

\* The fetch of the project list: a 500 on a transport error or a code >= 400,
\* otherwise the decoded projects.
StatusFetch(r, f) ==
    /\ requests[r].pc = "idle"
    /\ requests' = [requests EXCEPT ![r] =
            IF f.err \/ f.code >= HttpErrorFloor
            THEN [@ EXCEPT !.pc = "done", !.code = 500, !.fetch = f]
            ELSE [@ EXCEPT !.pc = IF Len(f.projects) = 0 THEN "wait" ELSE "dispatch",
                           !.projects = f.projects, !.fetch = f]]
    /\ UNCHANGED <<cfg, opVars, clock, storeVars, workers, notified, serial>>

\* One pass of the fan-out loop: wg.Add(1); go pingService(&projects[i], ...)
Dispatch(r) ==
    /\ requests[r].pc = "dispatch"
    /\ LET i == requests[r].next
       IN  /\ requests' = [requests EXCEPT
                   ![r].wg = @ + 1,
                   ![r].next = i + 1,
                   ![r].pc = IF i + 1 > Len(requests[r].projects) THEN "wait" ELSE "dispatch"]
           /\ workers' = [workers EXCEPT ![<<r, i>>].pc = "loop"]
    /\ UNCHANGED <<cfg, opVars, clock, storeVars, notified, serial>>

\* A join that also waits for the webhook goroutines.
joined_CountsWebhooks(r) ==
    requests[r].wg = 0 /\ \A n \in 1..Len(notified) : notified[n].pc = "done"

\* A join that does not wait.
joined_NoWait(r) == TRUE

\* wg.Wait() returns once the counter is zero.
joined(r) == requests[r].wg = 0

\* A response that leaves out the targets that are DOWN.
responseBody_OmitsDown(projects) == SelectSeq(projects, LAMBDA p : p.Status # "DOWN")

\* c.JSON(200, projects)
responseBody(projects) == projects

\* wg.Wait() returns; c.JSON(200, projects)
Respond(r) ==
    /\ requests[r].pc = "wait"
    /\ joined(r)
    /\ requests' = [requests EXCEPT ![r].pc = "done", ![r].code = 200,
                                    ![r].body = responseBody(requests[r].projects)]
    /\ UNCHANGED <<cfg, opVars, clock, storeVars, workers, notified, serial>>

(***************************************************************************)
(* The server: concurrent status requests over one Store.                  *)
(***************************************************************************)
\* The configurations loadConfig accepts (the numeric ones the probe reads),
\* with no webhook set.
Configs == [PingRetries : MinRetries..MaxRetries,
            PingRetryDelay : {0, DefaultRetryDelayMs},
            DegradedMs : {DefaultDegradedMs},
            WebhookURL : {""}, SlackWebhookURL : {""}, DiscordWebhookURL : {""}]

InitServer(configs) ==
    /\ cfg \in configs
    /\ clock = 0
    /\ store = NewStore
    /\ serial = NewStore
    /\ calls = 0
    /\ ret = <<>>
    /\ appended = [t \in Targets |-> <<>>]
    /\ created = <<>>
    /\ requests = [r \in Requests |-> IdleRequest]
    /\ workers = [w \in Workers |-> IdleWorker]
    /\ notified = <<>>
    /\ InitOps

\* time passes
Tick ==
    /\ clock < MaxClock
    /\ clock' = clock + 1
    /\ UNCHANGED <<cfg, opVars, storeVars, procVars>>

\* A step of one pingService goroutine; outs are the outcomes its attempts can have.
WorkerStep(w, outs) ==
    \/ \E o \in outs : Attempt(w, o)
    \/ Sleep(w)
    \/ Classify(w)
    \/ Lock(w)
    \/ ReadAppend(w)
    \/ WriteHistory(w)
    \/ ReadPrev(w)
    \/ WriteLast(w)
    \/ MakeIncident(w)
    \/ Unlock(w)
    \/ Finish(w)

\* The server is run with two attempts per probe and the default delay; its
\* targets answer 200 or 503 at once.
ServerConfigs == {c \in Configs : c.PingRetries = 2 /\ c.PingRetryDelay = DefaultRetryDelayMs}
ServerOutcomes == {o \in Outcomes : o.ms = 50 /\ o.err = ""}

Init == InitServer(ServerConfigs)

Next ==
    \/ Tick
    \/ \E r \in Requests : \E f \in FetchResults(r) : StatusFetch(r, f)
    \/ \E r \in Requests : Dispatch(r)
    \/ \E r \in Requests : Respond(r)
    \/ \E w \in Workers : WorkerStep(w, ServerOutcomes)

Spec == Init /\ [][Next]_vars

(***************************************************************************)
(* One probe under every configuration: a single status request over a     *)
(* one-project list.                                                       *)
(***************************************************************************)
InitProbe == InitServer(Configs)

NextProbe ==
    \/ Tick
    \/ StatusFetch(1, [err |-> FALSE, code |-> 200, projects |-> <<Project("a")>>])
    \/ Dispatch(1)
    \/ Respond(1)
    \/ WorkerStep(<<1, 1>>, Outcomes)

SpecProbe == InitProbe /\ [][NextProbe]_vars

(***************************************************************************)
(* Notification: one status request over a target that was HEALTHY before, *)
(* under every setting of the three webhooks, with the doWebhook           *)
(* goroutines it starts. The handler and its worker are scheduled fairly;  *)
(* nothing is assumed about when a webhook goroutine runs or a sink        *)
(* answers.                                                                *)
(***************************************************************************)
NotifyConfigs ==
    {[c EXCEPT !.WebhookURL = trimSpace(g), !.SlackWebhookURL = trimSpace(k),
               !.DiscordWebhookURL = trimSpace(d)] :
        c \in ServerConfigs, g \in EnvURLs, k \in EnvURLs, d \in EnvURLs}

\* One earlier check of target "a" that found it HEALTHY, and the Store after it.
OneEarlierCheck == [TS |-> 0, Status |-> "HEALTHY", LatencyMs |-> 50, Code |-> 200, Error |-> ""]

AfterOneCheck == addCheck(NewStore, Project("a"), OneEarlierCheck, 0, 0).store

InitNotify ==
    /\ cfg \in NotifyConfigs
    /\ clock = 0
    /\ store = AfterOneCheck
    /\ serial = AfterOneCheck
    /\ calls = 0
    /\ ret = <<>>
    /\ appended = [t \in Targets |-> IF t = "a" THEN <<OneEarlierCheck>> ELSE <<>>]
    /\ created = <<>>
    /\ requests = [r \in Requests |-> IdleRequest]
    /\ workers = [w \in Workers |-> IdleWorker]
    /\ notified = <<>>
    /\ InitOps

StatusFetchOne == StatusFetch(1, [err |-> FALSE, code |-> 200, projects |-> <<Project("a")>>])

NextNotify ==
    \/ Tick
    \/ StatusFetchOne
    \/ Dispatch(1)
    \/ Respond(1)
    \/ WorkerStep(<<1, 1>>, ServerOutcomes)
    \/ \E n \in 1..Len(notified) : \E o \in PostOutcomes : WebhookStep(n, o)

SpecNotify ==
    /\ InitNotify
    /\ [][NextNotify]_vars
    /\ WF_vars(StatusFetchOne)
    /\ WF_vars(Dispatch(1))
    /\ WF_vars(Respond(1))
    /\ WF_vars(WorkerStep(<<1, 1>>, ServerOutcomes))

(***************************************************************************)
(* Termination: two overlapping status requests over the same target,      *)
(* whose callers may hang up at any moment. Every goroutine that can take  *)
(* a step eventually takes one (each client.Get returns within             *)
(* cfg.PingTimeout), and a goroutine that waits for s.mu eventually gets   *)
(* it.                                                                     *)
(***************************************************************************)
\* The caller of request r closes the connection while the handler is busy.
\* The handler never reads c.Request.Context(), so nothing else changes; the
\* workers in flight at that moment are marked (history variable).
Disconnect(r) ==
    /\ requests[r].pc \in {"dispatch", "wait"}
    /\ requests[r].connected
    /\ requests' = [requests EXCEPT ![r].connected = FALSE]
    /\ workers' = [w \in Workers |->
            IF w[1] = r /\ workers[w].pc \notin {"idle", "done"}
            THEN [workers[w] EXCEPT !.orphaned = TRUE]
            ELSE workers[w]]
    /\ UNCHANGED <<cfg, opVars, clock, storeVars, notified, serial>>

\* A probe that is given the request's context and stops when the caller is gone.
cancelled_WithRequest(w) == ~requests[w[1]].connected

\* pingService is given no context: client.Get(p.URL) and addCheck are never
\* cancelled.
cancelled(w) == FALSE

FairConfigs == {c \in Configs : c.PingRetries \in {1, 2}}

\* Both requests find at most the one project "a", so that their workers
\* meet at the lock.
FairFetches(r) == {f \in FetchResults(r) : Len(f.projects) <= 1}

InitFair == InitServer(FairConfigs)

NextFair ==
    \/ \E r \in Requests : \E f \in FairFetches(r) : StatusFetch(r, f)
    \/ \E r \in Requests : Disconnect(r)
    \/ \E r \in Requests : Dispatch(r)
    \/ \E r \in Requests : Respond(r)
    \/ \E w \in Workers : ~cancelled(w) /\ WorkerStep(w, ServerOutcomes)

SpecFair ==
    /\ InitFair
    /\ [][NextFair]_vars
    /\ \A r \in Requests : WF_vars(Dispatch(r)) /\ WF_vars(Respond(r))
    /\ \A w \in Workers : /\ WF_vars(~cancelled(w) /\ WorkerStep(w, ServerOutcomes))
                          /\ SF_vars(~cancelled(w) /\ Lock(w))

(***************************************************************************)
(* Every Store operation at once: one probe's addCheck beside two handlers *)
(* that call the other operations.                                         *)
(***************************************************************************)
NextOps ==
    \/ Tick
    \/ StatusFetch(1, [err |-> FALSE, code |-> 200, projects |-> <<Project("a")>>])
    \/ Dispatch(1)
    \/ Respond(1)
    \/ WorkerStep(<<1, 1>>, ServerOutcomes)
    \/ \E c \in Clients : ClientStep(c)

SpecOps == Init /\ [][NextOps]_vars

(***************************************************************************)
(* The Store on its own: addCheck calls one at a time, from a Store that   *)
(* has already taken a number of checks.                                   *)
(***************************************************************************)
\* One addCheck together with the history variables that observe it.
observe(S, project, check, nowID, nowTS) ==
    LET r == addCheck(S.store, project, check, nowID, nowTS)
    IN  [store |-> r.store,
         appended |-> [S.appended EXCEPT ![project.ID] = Append(@, check)],
         created |-> S.created \o r.incident,
         ret |-> r.incident]

Fresh == [store |-> NewStore, appended |-> [t \in Targets |-> <<>>],
          created |-> <<>>, ret |-> <<>>]

\* The i-th of k earlier checks of target "a": one per millisecond up to the
\* first observed instant, 200 in 50 ms and 503 by turns.
earlierCheck(i, k) ==
    IF i % 2 = 1
    THEN [TS |-> i - k, Status |-> "HEALTHY", LatencyMs |-> 50, Code |-> 200, Error |-> ""]
    ELSE [TS |-> i - k, Status |-> "DOWN", LatencyMs |-> 0, Code |-> 503, Error |-> ""]

\* The Store S after the earlier checks number lo..hi of k (halved, to keep the
\* evaluation shallow).
RECURSIVE afterChecks(_, _, _, _)
afterChecks(S, lo, hi, k) ==
    IF lo > hi THEN S
    ELSE IF lo = hi
         THEN observe(S, Project("a"), earlierCheck(lo, k), lo - k, lo - k)
         ELSE LET mid == (lo + hi) \div 2
                  first == afterChecks(S, lo, mid, k)
              IN  \* the first half is evaluated before the second is entered
                  IF Len(first.created) >= 0
                  THEN afterChecks(first, mid + 1, hi, k)
                  ELSE first

\* How many checks the Store may have taken before the first observed instant.
EarlierChecks == {0, IncidentCap, HistoryCap - 1}

InitStore ==
    /\ cfg = DefaultConfig
    /\ clock = 0
    /\ calls = 0
    /\ requests = [r \in Requests |-> IdleRequest]
    /\ workers = [w \in Workers |-> IdleWorker]
    /\ notified = <<>>
    /\ InitOps
    /\ \E k \in EarlierChecks :
          LET S == afterChecks(Fresh, 1, k, k)
          IN  /\ store = S.store
              /\ appended = S.appended
              /\ created = S.created
              /\ ret = S.ret
              /\ serial = S.store

\* What the caller of an earlier read finds in the slice it was handed once
\* the Store is s: an array of its own is out of the Store's reach, a view of
\* the Store's array follows the Store's writes.
heldAfter(me, s) ==
    IF me.op \notin {"readHistory", "readIncidents"} THEN me.out
    ELSE IF me.out.backing = "own" THEN me.out
    ELSE [me.out EXCEPT !.items = IF me.op = "readHistory"
                                   THEN getHistory(s, me.arg, me.limit)
                                   ELSE getIncidents(s, me.limit)]

\* store.addCheck(*p, check) for a finished probe of target id.
RecordCheck(id) ==
    /\ calls < MaxCalls
    /\ \E check \in probeResults(cfg, clock) :
       \E nowTS \in {t \in {clock, clock + 1} : t <= MaxClock} :
          LET S == observe([store |-> store, appended |-> appended,
                            created |-> created, ret |-> ret],
                           Project(id), check, clock, nowTS)
          IN  /\ store' = S.store
              /\ appended' = S.appended
              /\ created' = S.created
              /\ ret' = S.ret
              /\ serial' = S.store
              /\ clock' = nowTS
              /\ clients' = [c \in Clients |->
                                [clients[c] EXCEPT !.out = heldAfter(clients[c], S.store)]]
    /\ calls' = calls + 1
    /\ UNCHANGED <<cfg, boot, rateLog, disk, requests, workers, notified>>

NextStore == Tick \/ \E id \in Targets : RecordCheck(id)

SpecStore == InitStore /\ [][NextStore]_vars

(***************************************************************************)
(* The Store with a caller that keeps what it has read: addCheck calls     *)
(* one at a time after getHistory and getIncidents calls.                  *)
(***************************************************************************)
\* h := store.getHistory(projectID, limit); the caller keeps h (one read is
\* followed).
ReadHistory(id, limit) ==
    /\ clients[Reader].op = ""
    /\ clients' = [clients EXCEPT ![Reader] = [IdleClient EXCEPT
            !.op = "readHistory", !.arg = id, !.limit = limit,
            !.out = copyOut(getHistory(store, id, limit))]]
    /\ UNCHANGED <<cfg, boot, clock, storeVars, procVars, rateLog, disk>>

\* xs := store.getIncidents(limit); the caller keeps xs.
ReadIncidents(limit) ==
    /\ clients[Reader].op = ""
    /\ clients' = [clients EXCEPT ![Reader] = [IdleClient EXCEPT
            !.op = "readIncidents", !.limit = limit,
            !.out = copyOut(getIncidents(store, limit))]]
    /\ UNCHANGED <<cfg, boot, clock, storeVars, procVars, rateLog, disk>>

NextFrame ==
    \/ \E id \in Targets : RecordCheck(id)
    \/ \E id \in Targets : ReadHistory(id, 2)
    \/ ReadIncidents(2)

\* The Store has taken no check, or as many as fill the incident list but for
\* one place.
InitFrame == InitStore /\ Len(appended["a"]) \in {0, IncidentCap}

SpecFrame == InitFrame /\ [][NextFrame]_vars

(***************************************************************************)
(* Reading the Store: getHistory and getIncidents on a Store that has      *)
(* taken a number of checks of target "a".                                 *)
(***************************************************************************)
\* How many checks the Store has taken when it is read.
ChecksBeforeRead == {0, 1, 3, IncidentCap, IncidentCap + 1, HistoryCap, HistoryCap + 1}

InitReads ==
    /\ cfg = DefaultConfig
    /\ clock = 0
    /\ calls = 0
    /\ requests = [r \in Requests |-> IdleRequest]
    /\ workers = [w \in Workers |-> IdleWorker]
    /\ notified = <<>>
    /\ InitOps
    /\ \E k \in ChecksBeforeRead :
          LET S == afterChecks(Fresh, 1, k, k)
          IN  /\ store = S.store
              /\ appended = S.appended
              /\ created = S.created
              /\ ret = S.ret
              /\ serial = S.store

\* The ids asked for: the targets and an id that is never checked.
ReadIDs == Targets \cup {"zz"}

HistoryLimits == {-1, 0, 1, 2, HistoryCap - 1, HistoryCap, HistoryCap + 1}
IncidentLimits == {-1, 0, 1, 2, IncidentCap - 1, IncidentCap, IncidentCap + 1}

\* store.getHistory(projectID, limit), the whole call.
GetHistory(id, limit) ==
    /\ clients' = [clients EXCEPT ![Reader] = [IdleClient EXCEPT
            !.op = "getHistory", !.arg = id, !.limit = limit,
            !.out = getHistory(store, id, limit)]]
    /\ UNCHANGED <<cfg, boot, clock, storeVars, procVars, rateLog, disk>>

\* store.getIncidents(limit), the whole call.
GetIncidents(limit) ==
    /\ clients' = [clients EXCEPT ![Reader] = [IdleClient EXCEPT
            !.op = "getIncidents", !.limit = limit,
            !.out = getIncidents(store, limit)]]
    /\ UNCHANGED <<cfg, boot, clock, storeVars, procVars, rateLog, disk>>

\* What the query of a read request can hold (c.Query gives "" for a
\* parameter that is absent).
ProjectQueries == {"", "  ", "a", " a ", "zz"}
LimitQueries == {"", "abc", "-1", "0", "1", "2", "200", "201", "500", "501"}
Queries == [project_id : ProjectQueries, limit : LimitQueries]

\* A limit taken from the query whenever it is a positive number.
historyLimit_NoUpperBound(limStr) ==
    LET lim == atoi(limStr)
    IN  IF limStr # "" /\ lim.ok /\ lim.val > 0 THEN lim.val ELSE DefaultHistoryLimit

\* limit := 48; if limStr != "" { if lim, err := strconv.Atoi(limStr);
\* err == nil && lim > 0 && lim <= 500 { limit = lim } }
historyLimit(limStr) ==
    LET lim == atoi(limStr)
    IN  IF limStr # "" /\ lim.ok /\ lim.val > 0 /\ lim.val <= MaxHistoryLimit
        THEN lim.val ELSE DefaultHistoryLimit

\* The same for the incidents endpoint: 50, and lim > 0 && lim <= 200.
incidentsLimit(limStr) ==
    LET lim == atoi(limStr)
    IN  IF limStr # "" /\ lim.ok /\ lim.val > 0 /\ lim.val <= MaxIncidentsLimit
        THEN lim.val ELSE DefaultIncidentsLimit

\* GET /api/v1/history: 400 without a project id, else the projectId and the
\* items of store.getHistory.
historyResponse(s, query) ==
    LET projectID == trimSpace(query.project_id)
    IN  IF projectID = ""
        THEN [code |-> 400, error |-> "project_id is required",
              projectId |-> "", items |-> <<>>]
        ELSE [code |-> 200, error |-> "", projectId |-> projectID,
              items |-> getHistory(s, projectID, historyLimit(query.limit))]

\* GET /api/v1/incidents: the items of store.getIncidents.
incidentsResponse(s, query) ==
    [code |-> 200, error |-> "", projectId |-> "",
     items |-> getIncidents(s, incidentsLimit(query.limit))]

\* The history handler, the whole request.
HistoryEndpoint(query) ==
    /\ clients' = [clients EXCEPT ![Reader] = [IdleClient EXCEPT
            !.op = "history",
            !.out = [query |-> query, body |-> historyResponse(store, query)]]]
    /\ UNCHANGED <<cfg, boot, clock, storeVars, procVars, rateLog, disk>>

\* The incidents handler, the whole request.
IncidentsEndpoint(query) ==
    /\ clients' = [clients EXCEPT ![Reader] = [IdleClient EXCEPT
            !.op = "incidents",
            !.out = [query |-> query, body |-> incidentsResponse(store, query)]]]
    /\ UNCHANGED <<cfg, boot, clock, storeVars, procVars, rateLog, disk>>

NextReads ==
    \/ \E id \in ReadIDs : \E limit \in HistoryLimits : GetHistory(id, limit)
    \/ \E limit \in IncidentLimits : GetIncidents(limit)
    \/ \E query \in Queries : HistoryEndpoint(query)
    \/ \E query \in {q \in Queries : q.project_id = ""} : IncidentsEndpoint(query)

SpecReads == InitReads /\ [][NextReads]_vars

(***************************************************************************)
(* The rate limiter on its own: allowAction calls one at a time, under     *)
(* every small window and limit, while time passes.                        *)
(***************************************************************************)
RatePolicies == [window : {1, 2}, limit : {1, 2}]

InitRate ==
    /\ cfg = DefaultConfig
    /\ clock = 0
    /\ store = NewStore
    /\ serial = NewStore
    /\ calls = 0
    /\ ret = <<>>
    /\ appended = [t \in Targets |-> <<>>]
    /\ created = <<>>
    /\ requests = [r \in Requests |-> IdleRequest]
    /\ workers = [w \in Workers |-> IdleWorker]
    /\ notified = <<>>
    /\ clients = [c \in Clients |-> IdleClient]
    /\ disk = NoDisk
    /\ boot = Booted
    /\ \E policy \in RatePolicies :
          rateLog = [window |-> policy.window, limit |-> policy.limit, calls |-> <<>>]

\* time passes
RateTick ==
    /\ clock < MaxRateClock
    /\ clock' = clock + 1
    /\ UNCHANGED <<cfg, opVars, storeVars, procVars>>

\* store.allowAction(key, window, limit), the whole call.
AllowAction(key) ==
    /\ Len(rateLog.calls) < MaxRateCalls
    /\ LET r == allowAction(store, key, rateLog.window, rateLog.limit, clock)
       IN  /\ store' = r.store
           /\ rateLog' = [rateLog EXCEPT !.calls =
                   Append(@, [key |-> key, now |-> clock, ok |-> r.ok])]
    /\ UNCHANGED <<cfg, boot, clock, calls, ret, appended, created, procVars, clients, disk>>

NextRate == RateTick \/ \E key \in Keys : AllowAction(key)

SpecRate == InitRate /\ [][NextRate]_vars

(***************************************************************************)
(* The confirm store: markConfirmed and isConfirmed calls one at a time on *)
(* a Store built over a file, with every outcome of the file operations,   *)
(* and the process ending and starting again at any moment.                *)
(***************************************************************************)
\* What the path holds when the first process starts: nothing, or a document
\* that was put there by hand, with a key in its own spelling.
InitialFiles == {Absent, snapshot(MapPut(EmptyMap, " A@x.io ", 0))}

\* NewStore(cfg): the empty Store, then s.loadConfirmedFromDisk().
NewStoreOn(d, readOK) == loadConfirmedFromDisk(NewStore, d, readOK)

InitConfirm ==
    /\ cfg = DefaultConfig
    /\ clock = 0
    /\ serial = NewStore
    /\ calls = 0
    /\ ret = <<>>
    /\ appended = [t \in Targets |-> <<>>]
    /\ created = <<>>
    /\ requests = [r \in Requests |-> IdleRequest]
    /\ workers = [w \in Workers |-> IdleWorker]
    /\ notified = <<>>
    /\ clients = [c \in Clients |-> IdleClient]
    /\ rateLog = NoRateLog
    /\ boot = Booted
    /\ \E f \in InitialFiles :
          /\ disk = [NoDisk EXCEPT !.file = f, !.marked = DOMAIN f.data]
          /\ store = NewStoreOn([NoDisk EXCEPT !.file = f], TRUE)

\* store.markConfirmed(email), the whole call; the last call and how its file
\* operations ended are kept in clients[Reader] (history variable).
MarkConfirmed(email) ==
    /\ mutexFree(store)
    /\ \E wrote \in WriteOutcomes, renamed \in BOOLEAN :
          LET s1 == markConfirmed(store, email, clock)
          IN  /\ store' = s1
              /\ disk' = [persistConfirmedToDiskLocked(s1, disk, wrote, renamed)
                            EXCEPT !.marked = @ \cup {email}]
              /\ clients' = [clients EXCEPT ![Reader] = [IdleClient EXCEPT
                      !.op = "markConfirmed", !.arg = email, !.out = <<wrote, renamed>>]]
    /\ UNCHANGED <<cfg, boot, clock, calls, ret, appended, created, serial, procVars, rateLog>>

\* store.isConfirmed(email), the whole call.
IsConfirmed(email) ==
    /\ mutexFree(store)
    /\ clients' = [clients EXCEPT ![Reader] = [IdleClient EXCEPT
            !.op = "isConfirmed", !.arg = email, !.out = isConfirmed(store, email)]]
    /\ UNCHANGED <<cfg, boot, clock, storeVars, procVars, rateLog, disk>>

\* The process ends between two calls and a new one runs NewStore(cfg) on the
\* same path.
Restart(readOK) ==
    /\ store' = NewStoreOn(disk, readOK)
    /\ disk' = [disk EXCEPT !.failed = ~readOK,
                            !.marked = IF readOK THEN DOMAIN disk.file.data ELSE {}]
    /\ clients' = [clients EXCEPT ![Reader] = [IdleClient EXCEPT
            !.op = "restart", !.out = readOK]]
    /\ UNCHANGED <<cfg, boot, clock, calls, ret, appended, created, serial, procVars, rateLog>>

\* The process dies inside markConfirmed, after os.WriteFile has run (or while
\* it runs) and before os.Rename; a new one runs NewStore(cfg).
CrashInPersist(email, wrote, readOK) ==
    /\ mutexFree(store)
    /\ LET d1 == writeTmp(markConfirmed(store, email, clock), disk, wrote)
       IN  /\ store' = NewStoreOn(d1, readOK)
           /\ disk' = [d1 EXCEPT !.failed = ~readOK,
                                 !.marked = IF readOK THEN DOMAIN d1.file.data ELSE {}]
    /\ clients' = [clients EXCEPT ![Reader] = [IdleClient EXCEPT
            !.op = "crash", !.arg = email, !.out = readOK]]
    /\ UNCHANGED <<cfg, boot, clock, calls, ret, appended, created, serial, procVars, rateLog>>

NextConfirm ==
    \/ Tick
    \/ \E email \in Emails : MarkConfirmed(email)
    \/ \E email \in Emails : IsConfirmed(email)
    \/ \E readOK \in BOOLEAN : Restart(readOK)
    \/ \E email \in Emails : \E wrote \in WriteOutcomes : \E readOK \in BOOLEAN :
          CrashInPersist(email, wrote, readOK)

SpecConfirm == InitConfirm /\ [][NextConfirm]_vars

(***************************************************************************)
(* GET /api/v1/auth/confirm: every token a caller can present, at every    *)
(* instant, to a server whose file operations succeed.                     *)
(***************************************************************************)
\* The keys a signature can be made with: the server's and another one.
Secrets == {DefaultConfig.ConfirmTokenSecret, "guess"}

\* A first part the server never signed in this run.
OtherMsg == encodePayload([Email |-> "c@x.io", Username |-> "u", Exp |-> 4, Nonce |-> "n"])

\* The texts a second part can be beside first part msg: the MAC of msg or of
\* another text, under either key, spelt with either value of the unused
\* bits; or a text that is no base64url.
SigStrings(msg) ==
    [bytes : {hmacSha256(k, m) : k \in Secrets, m \in {msg, OtherMsg}},
     spare : {0, 1}, valid : {TRUE}]
        \cup {[encodeSig(hmacSha256(DefaultConfig.ConfirmTokenSecret, msg)) EXCEPT
                    !.valid = FALSE]}

\* The tokens presented: every pair of a first and a second part, and the
\* server's own tokens with the dot left out or a third part added.
Tokens ==
    UNION {[parts : {2}, msg : {msg}, sig : SigStrings(msg)] : msg \in MsgStrings}
        \cup {[signConfirmToken(DefaultConfig.ConfirmTokenSecret, p) EXCEPT !.parts = n] :
                p \in Payloads, n \in {1, 3}}

\* The handler of the confirm link; the token, the instant, the answer and
\* the confirmed map before the call are kept in clients[Reader] (history
\* variable).
ConfirmEndpoint(token) ==
    LET r == verifyConfirmToken(cfg.ConfirmTokenSecret, token, clock)
        was == store.confirmedEmails
    IN  IF ~r.ok
        THEN /\ clients' = [clients EXCEPT ![Reader] = [IdleClient EXCEPT
                    !.op = "confirm", !.arg = token, !.now = clock,
                    !.out = [code |-> 400, ok |-> FALSE, payload |-> r.payload, was |-> was]]]
             /\ UNCHANGED <<store, disk>>
        ELSE /\ store' = markConfirmed(store, r.payload.Email, clock)
             /\ disk' = [persistConfirmedToDiskLocked(store', disk, "ok", TRUE)
                            EXCEPT !.marked = @ \cup {r.payload.Email}]
             /\ clients' = [clients EXCEPT ![Reader] = [IdleClient EXCEPT
                    !.op = "confirm", !.arg = token, !.now = clock,
                    !.out = [code |-> 200, ok |-> TRUE, payload |-> r.payload, was |-> was]]]

ConfirmLink(token) ==
    /\ mutexFree(store)
    /\ ConfirmEndpoint(token)
    /\ UNCHANGED <<cfg, boot, clock, calls, ret, appended, created, serial, procVars, rateLog>>

NextToken == RateTick \/ \E token \in Tokens : ConfirmLink(token)

\* The first process starts on a path that holds no file.
InitToken == InitConfirm /\ disk.file = Absent

SpecToken == InitToken /\ [][NextToken]_vars

(***************************************************************************)
(* POST /api/v1/auth/send-confirmation: requests one at a time from one    *)
(* address, on a Store loaded from its file, while minutes pass.           *)
(***************************************************************************)
\* The bodies posted: no JSON at all, or an object with an email field.
SendBodies == [json : {FALSE}, Email : {""}, Username : {""}]
                \cup [json : {TRUE}, Email : {"", " A@x.io ", "b@x.io", "nobody"},
                       Username : {"u"}]

ClientIPs == {"10.0.0.1"}

\* strings.Contains(email, "@")
containsAt(email) == email \in {"A@x.io", "a@x.io", "b@x.io"}

\* "confirm:ip:" + ip
ipKey(ip) == CASE ip = "10.0.0.1" -> "confirm:ip:10.0.0.1"

\* "confirm:email:" + strings.ToLower(email)
emailKey(email) ==
    CASE email \in {"A@x.io", "a@x.io"} -> "confirm:email:a@x.io"
      [] email = "b@x.io" -> "confirm:email:b@x.io"

\* Limiters asked in the other order.
limiters_EmailFirst(ip, email) ==
    <<[key |-> emailKey(email), window |-> EmailWindowMs, limit |-> EmailLimit],
      [key |-> ipKey(ip), window |-> IPWindowMs, limit |-> IPLimit]>>

\* The two allowAction calls of the handler, in the order of its statements:
\* per address, 10 a minute; per email, 5 in 10 minutes.
limiters(ip, email) ==
    <<[key |-> ipKey(ip), window |-> IPWindowMs, limit |-> IPLimit],
      [key |-> emailKey(email), window |-> EmailWindowMs, limit |-> EmailLimit]>>

\* if !store.allowAction(...) { 429; return } for each limiter in turn: the
\* Store afterwards and whether every limiter allowed.
RECURSIVE askLimiters(_, _, _)
askLimiters(s, sites, now) ==
    IF sites = <<>> THEN [store |-> s, ok |-> TRUE]
    ELSE LET r == allowAction(s, Head(sites).key, Head(sites).window, Head(sites).limit, now)
         IN  IF r.ok THEN askLimiters(r.store, Tail(sites), now)
             ELSE [store |-> r.store, ok |-> FALSE]

NoLink == [code |-> 0, alreadyConfirmed |-> FALSE, expiresAt |-> 0, token |-> <<>>]

\* The handler: the Store afterwards and the response (the token stands for
\* the confirmLink that carries it). now is in milliseconds, the expiry in
\* seconds.
sendConfirmation(s, c, body, ip, now, nonceOK) ==
    LET email == trimSpace(body.Email)
        username == trimSpace(body.Username)
    IN  IF ~body.json THEN [store |-> s, resp |-> [NoLink EXCEPT !.code = 400]]
        ELSE IF email = "" \/ ~containsAt(email)
        THEN [store |-> s, resp |-> [NoLink EXCEPT !.code = 400]]
        ELSE IF isConfirmed(s, email)
        THEN [store |-> s, resp |-> [NoLink EXCEPT !.code = 200, !.alreadyConfirmed = TRUE]]
        ELSE LET r == askLimiters(s, limiters(ip, email), now)
                 exp == (now \div 1000) + c.ConfirmTokenTTLMinutes * 60
             IN  IF ~r.ok THEN [store |-> r.store, resp |-> [NoLink EXCEPT !.code = 429]]
                 ELSE IF ~nonceOK
                 THEN [store |-> r.store, resp |-> [NoLink EXCEPT !.code = 500]]
                 ELSE [store |-> r.store,
                       resp |-> [NoLink EXCEPT !.code = 200, !.expiresAt = exp,
                                    !.token = <<signConfirmToken(c.ConfirmTokenSecret,
                                        [Email |-> email, Username |-> username,
                                         Exp |-> exp, Nonce |-> "n"])>>]]

\* One request, the whole handler; the request and the response are kept in
\* clients[Reader] (history variable).
SendConfirmation(body, ip, nonceOK) ==
    /\ mutexFree(store)
    /\ LET r == sendConfirmation(store, cfg, body, ip, clock, nonceOK)
       IN  /\ store' = r.store
           /\ clients' = [clients EXCEPT ![Reader] = [IdleClient EXCEPT
                   !.op = "send", !.arg = body, !.now = clock, !.out = r.resp]]
    /\ UNCHANGED <<cfg, boot, clock, calls, ret, appended, created, serial, procVars,
                   rateLog, disk>>

\* A minute passes.
MinutePasses ==
    /\ clock < MaxSendMinutes * IPWindowMs
    /\ clock' = clock + IPWindowMs
    /\ UNCHANGED <<cfg, opVars, storeVars, procVars>>

NextSend ==
    \/ MinutePasses
    \/ \E body \in SendBodies, ip \in ClientIPs, nonceOK \in BOOLEAN :
          SendConfirmation(body, ip, nonceOK)

SpecSend == InitConfirm /\ [][NextSend]_vars

(***************************************************************************)
(* The start of the process under every environment, and one status        *)
(* request to the process that got past loadConfig.                        *)
(***************************************************************************)
InitConfig ==
    /\ cfg = ZeroConfig
    /\ clock = 0
    /\ store = NewStore
    /\ serial = NewStore
    /\ calls = 0
    /\ ret = <<>>
    /\ appended = [t \in Targets |-> <<>>]
    /\ created = <<>>
    /\ requests = [r \in Requests |-> IdleRequest]
    /\ workers = [w \in Workers |-> IdleWorker]
    /\ notified = <<>>
    /\ clients = [c \in Clients |-> IdleClient]
    /\ rateLog = NoRateLog
    /\ disk = NoDisk
    /\ \E env \in Envs : boot = [pc |-> "start", env |-> env, err |-> ""]

\* The routes exist only in a process that serves.
Serve ==
    /\ boot.pc = "serving"
    /\ \/ StatusFetchOne
       \/ Dispatch(1)
       \/ Respond(1)
       \/ WorkerStep(<<1, 1>>, ServerOutcomes)

NextConfig == LoadConfig \/ Serve

SpecConfig == InitConfig /\ [][NextConfig]_vars

(***************************************************************************)
(* Properties of the Store.                                                *)
(***************************************************************************)
Min(x, y) == IF x <= y THEN x ELSE y

historyOf(t) == MapGet(store.historyByID, t, <<>>)

\* C1: after N addCheck calls for a target its stored history has length
\* min(N, 500) and is the min(N, 500) most recently appended records in the
\* order they were appended (so the 501st check evicts the oldest record only).
C1_HistoryIsNewestInOrder ==
    \A t \in Targets :
        LET N == Len(appended[t])
            n == Min(N, HistoryCap)
        IN  /\ Len(historyOf(t)) = n
            /\ historyOf(t) = SubSeq(appended[t], N - n + 1, N)

\* C1 witness: an observed call was the 501st check of a target.
C1_Witness ==
    /\ calls > 0
    /\ \E t \in Targets :
          /\ Len(appended[t]) = HistoryCap + 1
          /\ Len(historyOf(t)) = HistoryCap
          /\ historyOf(t)[1] = appended[t][2]

\* The adjacent unequal pairs in the statuses recorded for target t.
transitionsOf(t) ==
    {i \in 1..(Len(appended[t]) - 1) : appended[t][i].Status # appended[t][i + 1].Status}

createdFor(t) == {j \in 1..Len(created) : created[j].ProjectID = t}

\* C2: an addCheck call creates, stores and returns an incident exactly when
\* the target has a LastStatus entry that differs from the new status (never on
\* a first check, never on an unchanged status), so the incidents ever created
\* for a target number the adjacent unequal pairs of its recorded statuses.
C2_IncidentIffTransition ==
    /\ [](\A t \in Targets : Cardinality(createdFor(t)) = Cardinality(transitionsOf(t)))
    /\ [](ret # <<>> => /\ ret[1] = created[Len(created)]
                        /\ ret[1] = store.incidents[1])
    /\ [][\A t \in Targets :
            Len(appended'[t]) = Len(appended[t]) + 1 =>
                LET status == appended'[t][Len(appended'[t])].Status
                    differs == /\ t \in DOMAIN store.lastStatusByID
                               /\ store.lastStatusByID[t] # status
                IN  /\ differs <=> ret' # <<>>
                    /\ differs <=> Len(created') = Len(created) + 1
                    /\ ~differs => created' = created /\ store'.incidents = store.incidents]_vars

\* C2 witness: from an empty Store, a first check and then a check with another
\* status, which returned the one incident created.
C2_Witness ==
    /\ calls = 2
    /\ Len(created) = 1
    /\ ret = <<created[1]>>
    /\ \E t \in Targets : Len(appended[t]) = 2

\* C3: the incident list holds at most 200 incidents, newest first: it is the
\* min(created, 200) most recently created incidents in reverse creation order
\* (so the 201st incident drops the oldest one only).
C3_IncidentsNewestFirstCapped ==
    LET n == Len(created)
    IN  /\ Len(store.incidents) = Min(n, IncidentCap)
        /\ Len(store.incidents) <= IncidentCap
        /\ \A j \in 1..Len(store.incidents) : store.incidents[j] = created[n - j + 1]

\* C3 witness: an observed call created the 201st incident.
C3_Witness ==
    /\ calls > 0
    /\ ret # <<>>
    /\ Len(created) = IncidentCap + 1
    /\ store.incidents[IncidentCap] = created[2]

\* C9: no two incidents ever created have the same id.
C9_IncidentIdsUnique ==
    Cardinality({created[j].ID : j \in 1..Len(created)}) = Len(created)

(***************************************************************************)
(* Properties of the probe. A worker at "lock" has classified its probe    *)
(* and holds the CheckResult it is about to hand to addCheck.              *)
(***************************************************************************)
classified(w) == workers[w].pc = "lock"

responded(r) == requests[r].pc = "done" /\ requests[r].code = 200

\* C4: every stored CheckRecord with status DOWN has latency 0, and so has
\* every DOWN entry of a status response, whatever time the attempts took.
C4_DownHasZeroLatency ==
    /\ \A t \in Targets : \A i \in 1..Len(historyOf(t)) :
          historyOf(t)[i].Status = "DOWN" => historyOf(t)[i].LatencyMs = 0
    /\ \A w \in Workers :
          classified(w) /\ workers[w].check.Status = "DOWN" =>
              workers[w].check.LatencyMs = 0 /\ projectOf(w).Latency = 0
    /\ \A r \in Requests : \A i \in 1..Len(requests[r].body) :
          requests[r].body[i].Status = "DOWN" => requests[r].body[i].Latency = 0

\* C4 witness: a response with a DOWN entry whose record is in the history.
C4_Witness ==
    /\ responded(1)
    /\ requests[1].body[1].Status = "DOWN"
    /\ Len(historyOf("a")) = 1
    /\ historyOf("a")[1].Status = "DOWN"

C6_AttemptsBounded ==
    \A w \in Workers :
        LET seen == workers[w].seen
        IN  /\ seen.n <= cfg.PingRetries
            /\ seen.failed = IF seen.n > 0 /\ ~failedAttempt(seen.last)
                              THEN seen.n - 1 ELSE seen.n
            /\ classified(w) => seen.n >= 1
            /\ classified(w) /\ workers[w].check.Status = "DOWN" =>
                  seen.n = cfg.PingRetries /\ seen.failed = cfg.PingRetries

\* C6 witness: a probe DOWN after five failed attempts.
C6_Witness ==
    \E w \in Workers :
        /\ classified(w)
        /\ workers[w].check.Status = "DOWN"
        /\ workers[w].seen.n = MaxRetries
        /\ workers[w].seen.failed = MaxRetries

\* C7: the CheckRecord carries the code and the error of the last attempt made:
\* no code when that attempt got no response, no error text when it got one.
C7_RecordCarriesLastAttempt ==
    \A w \in Workers :
        classified(w) =>
            /\ workers[w].check.Code = workers[w].seen.last.code
            /\ workers[w].check.Error = workers[w].seen.last.err

\* Every attempt of w's probe got a response with a code >= 400.
allRejected(w) ==
    /\ classified(w)
    /\ workers[w].seen.rejected = workers[w].seen.n

\* C8 as stated: when every attempt gets a code >= 400 the record is DOWN with
\* latency 0 and a non-empty error text.
C8_RejectedHasErrorText ==
    \A w \in Workers :
        allRejected(w) =>
            /\ workers[w].check.Status = "DOWN"
            /\ workers[w].check.LatencyMs = 0
            /\ workers[w].check.Error # ""

\* C8 amended: when every attempt gets a code >= 400 the record is DOWN with
\* latency 0, the code of the last attempt and an empty error text.
C8_RejectedHasCodeNoErrorText ==
    \A w \in Workers :
        allRejected(w) =>
            /\ workers[w].check.Status = "DOWN"
            /\ workers[w].check.LatencyMs = 0
            /\ workers[w].check.Code = workers[w].seen.last.code
            /\ workers[w].check.Code >= HttpErrorFloor
            /\ workers[w].check.Error = ""

\* C8 witness: three attempts, each answered 503.
C8_Witness ==
    \E w \in Workers :
        /\ allRejected(w)
        /\ cfg.PingRetries = 3
        /\ workers[w].seen.n = 3
        /\ workers[w].check.Code = 503

(***************************************************************************)
(* Atomicity of addCheck.                                                  *)
(***************************************************************************)
inAddCheck(w) == workers[w].pc \in {"append", "write", "prev", "last", "incident", "unlock"}

dataOf(s) == [historyByID |-> s.historyByID, lastStatusByID |-> s.lastStatusByID,
              incidents |-> s.incidents]

\* C10: concurrent addCheck calls leave the histories, the LastStatus table and
\* the incident list as the same calls run one at a time would (in the order
\* they finished): whenever no call is under way the Store equals that result.
C10_AddCheckAtomic ==
    (\A w \in Workers : ~inAddCheck(w)) => dataOf(store) = dataOf(serial)

\* C10 witness: two requests' probes of the same target with different
\* statuses, one inside addCheck between its read and its write of the history
\* while the other waits for the lock.
C10_Witness ==
    \E w1, w2 \in Workers :
        /\ w1[1] # w2[1]
        /\ workers[w1].pc = "lock"
        /\ workers[w2].pc = "write"
        /\ store.mu = w2
        /\ projectOf(w1).ID = projectOf(w2).ID
        /\ workers[w1].check.Status # workers[w2].check.Status

(***************************************************************************)
(* The lock of the Store.                                                  *)
(***************************************************************************)
inOperation(c) == clients[c].pc \in {"body", "unlock"}

inCritical(p) == IF p \in Workers THEN inAddCheck(p) ELSE inOperation(p)

waitsForLock(p) == IF p \in Workers THEN workers[p].pc = "lock" ELSE clients[p].pc = "lock"

\* C11: at most one Store operation is inside its critical section; the lock is
\* held exactly while an operation is inside (so it is free whenever none is,
\* whichever way the operation returned); no operation waits for a lock it
\* holds itself, and whoever holds the lock can take its next step, so a
\* waiting operation is never stuck for good.
C11_OneHolderNoDeadlock ==
    /\ Cardinality({p \in Workers \cup Clients : inCritical(p)}) <= 1
    /\ \A p \in Workers \cup Clients : inCritical(p) <=> store.mu = p
    /\ store.mu \in Workers \cup Clients \cup {NoOne}
    /\ \A p \in Workers \cup Clients : waitsForLock(p) => store.mu # p
    /\ \A w \in Workers : inAddCheck(w) => ENABLED WorkerStep(w, ServerOutcomes)
    /\ \A c \in Clients : inOperation(c) => ENABLED ClientStep(c)
    /\ (\E p \in Workers \cup Clients : waitsForLock(p)) /\ store.mu = NoOne =>
          \E p \in Workers \cup Clients :
              IF p \in Workers THEN ENABLED Lock(p) ELSE ENABLED ClientLock(p)

\* C11 witness: the probe's addCheck holds the lock after a handler's refused
\* allowAction (and the allowed one before it) has returned.
C11_Witness ==
    \E c1, c2 \in Clients :
        /\ clients[c1].pc = "done" /\ clients[c1].op = "allowAction"
        /\ clients[c1].out = FALSE
        /\ clients[c2].pc = "done" /\ clients[c2].op = "allowAction"
        /\ workers[<<1, 1>>].pc = "write"
        /\ store.mu = <<1, 1>>

(***************************************************************************)
(* The status response.                                                    *)
(***************************************************************************)
\* The worker of request r for index i of its project list.
workerOf(r, i) == workers[<<r, i>>]

\* C12: a status response over a list of targets with unique ids has exactly
\* one entry per input target (none missing, duplicated or added), each with
\* one of the statuses HEALTHY, DEGRADED, DOWN.
C12_OneEntryPerTarget ==
    \A r \in Requests :
        responded(r) =>
            LET input == requests[r].fetch.projects
                body == requests[r].body
            IN  /\ \A i \in 1..Len(input) :
                      Cardinality({j \in 1..Len(body) : body[j].ID = input[i].ID}) = 1
                /\ \A j \in 1..Len(body) : \E i \in 1..Len(input) : body[j].ID = input[i].ID
                /\ \A j \in 1..Len(body) : body[j].Status \in Statuses

\* C12 witness: a response with two targets, one of them DOWN and one not.
C12_Witness ==
    /\ responded(1)
    /\ Len(requests[1].body) = 2
    /\ requests[1].body[1].Status = "DOWN"
    /\ requests[1].body[2].Status = "HEALTHY"

\* C13: once the response is sent every worker of the request has finished
\* (none is still probing or inside addCheck), and each target of the request
\* has had exactly one record appended to its history by this request, the one
\* the response reports.
C13_RespondsAfterAllWorkers ==
    \A r \in Requests :
        responded(r) =>
            \A i \in 1..Len(requests[r].fetch.projects) :
                LET t == requests[r].fetch.projects[i].ID
                IN  /\ workerOf(r, i).pc = "done"
                    /\ Len(workerOf(r, i).recorded) = 1
                    /\ \E k \in 1..Len(appended[t]) : appended[t][k] = workerOf(r, i).recorded[1]
                    /\ workerOf(r, i).recorded[1].Status = requests[r].body[i].Status
                    /\ workerOf(r, i).recorded[1].LatencyMs = requests[r].body[i].Latency

\* C13 witness: the response for two targets is out while the overlapping
\* request's worker is still inside addCheck.
C13_Witness ==
    /\ responded(1)
    /\ Len(requests[1].body) = 2
    /\ workers[<<2, 1>>].pc = "write"

\* C20: when the fetch of the project list fails (transport failure or a code
\* outside 200..299) the endpoint answers with a 5xx and no projects, and no
\* worker of the request is ever started.
C20_FetchFailureFailsClosed ==
    \A r \in Requests :
        LET f == requests[r].fetch
        IN  requests[r].pc = "done" /\ (f.err \/ f.code < 200 \/ f.code > 299) =>
                /\ requests[r].code >= 500
                /\ requests[r].body = <<>>
                /\ requests[r].wg = 0 /\ requests[r].next = 1

(***************************************************************************)
(* Notification.                                                           *)
(***************************************************************************)
postsTo(n, sink) == SelectSeq(notified[n].posts, LAMBDA q : q.sink = sink)

\* C14: a status request that has fetched its targets always goes on to send
\* its response, with no assumption that a webhook goroutine ever runs or
\* that a sink ever answers.
C14_ResponseNeedsNoSink == (requests[1].pc = "dispatch") ~> responded(1)

\* C14 witness: the response is out while the webhook goroutine of the
\* incident the request created has not made its first POST.
C14_Witness ==
    /\ responded(1)
    /\ Len(notified) = 1
    /\ notified[1].pc = "generic"
    /\ notified[1].posts = <<>>
    /\ cfg.WebhookURL # ""

justRead(op) == clients'[Reader] # clients[Reader] /\ clients'[Reader].op = op

\* C16: getHistory(id, limit) returns the last limit records of the stored
\* history, oldest first, when 1 <= limit <= available, the whole stored
\* history when limit <= 0 or limit > available, and the empty sequence for an
\* id that was never checked.
C16_GetHistoryLastN ==
    [][justRead("getHistory") =>
        LET me == clients'[Reader]
            h == historyOf(me.arg)
            available == Len(h)
        IN  /\ (1 <= me.limit /\ me.limit <= available) =>
                  /\ Len(me.out) = me.limit
                  /\ \A i \in 1..me.limit : me.out[i] = h[available - me.limit + i]
            /\ (me.limit <= 0 \/ me.limit > available) => me.out = h
            /\ (me.arg \notin Targets \/ appended[me.arg] = <<>>) => me.out = <<>>]_vars

\* C16 witness: the last two of 500 stored records were read.
C16_Witness ==
    /\ clients[Reader].op = "getHistory"
    /\ clients[Reader].limit = 2
    /\ Len(historyOf(clients[Reader].arg)) = HistoryCap
    /\ clients[Reader].out = SubSeq(historyOf(clients[Reader].arg), HistoryCap - 1, HistoryCap)
    /\ clients[Reader].out[1] # clients[Reader].out[2]

\* C17: getIncidents(limit) returns the first limit incidents of the stored
\* list (the most recent ones), most recent first, when 1 <= limit <=
\* available, and the whole list when limit <= 0 or limit > available.
C17_GetIncidentsFirstN ==
    [][justRead("getIncidents") =>
        LET me == clients'[Reader]
            available == Len(store.incidents)
        IN  /\ (1 <= me.limit /\ me.limit <= available) =>
                  /\ Len(me.out) = me.limit
                  /\ \A i \in 1..me.limit : me.out[i] = store.incidents[i]
                  /\ me.out[1] = created[Len(created)]
            /\ (me.limit <= 0 \/ me.limit > available) => me.out = store.incidents]_vars

\* C17 witness: the two most recent of 200 stored incidents were read.
C17_Witness ==
    /\ clients[Reader].op = "getIncidents"
    /\ clients[Reader].limit = 2
    /\ Len(store.incidents) = IncidentCap
    /\ clients[Reader].out = <<store.incidents[1], store.incidents[2]>>
    /\ clients[Reader].out[1] # store.incidents[IncidentCap]

(***************************************************************************)
(* The rate limiter.                                                       *)
(***************************************************************************)
bucketOf(s, key) == MapGet(s.rateBuckets, key, <<>>)

\* The calls number 1..n of the log that were allowed for key at a time in lo..hi.
allowedIn(key, n, lo, hi) ==
    {i \in 1..n : /\ rateLog.calls[i].key = key
                  /\ rateLog.calls[i].ok
                  /\ rateLog.calls[i].now >= lo
                  /\ rateLog.calls[i].now <= hi}

\* C18: for each key, the allowed calls with timestamps inside any window of
\* length window never number more than max; and a call is allowed exactly
\* when fewer than max earlier allowed calls of the key are still inside the
\* window that ends at the call (so the first max calls of a window are
\* allowed, later ones are refused until the oldest counted call has aged
\* out, and then a call is allowed again).
C18_AtMostMaxPerWindow ==
    \A key \in Keys :
        /\ \A t \in 0..MaxRateClock :
              Cardinality(allowedIn(key, Len(rateLog.calls), t, t + rateLog.window))
                  <= rateLog.limit
        /\ \A i \in 1..Len(rateLog.calls) :
              LET call == rateLog.calls[i]
              IN  call.key = key =>
                      (call.ok <=>
                          Cardinality(allowedIn(key, i - 1, call.now - rateLog.window, call.now))
                              < rateLog.limit)

\* C18 witness: with max 2, two calls allowed, the next refused while both
\* are inside the window, and a later call allowed once the oldest aged out.
C18_Witness ==
    /\ rateLog.limit = 2
    /\ Len(rateLog.calls) = 4
    /\ \A i \in 1..4 : rateLog.calls[i].key = "confirm:ip:1"
    /\ rateLog.calls[1].ok /\ rateLog.calls[2].ok
    /\ ~rateLog.calls[3].ok
    /\ rateLog.calls[4].ok
    /\ rateLog.calls[4].now = rateLog.calls[1].now + rateLog.window + 1
    /\ rateLog.calls[4].now <= rateLog.calls[2].now + rateLog.window

\* C19: a refused allowAction call adds nothing to the key's bucket (which
\* keeps only its entries still inside the window), an allowed call adds
\* exactly its own timestamp, and a call never changes another key's bucket.
C19_RefusedRecordsNothing ==
    [][Len(rateLog'.calls) = Len(rateLog.calls) + 1 =>
        LET call == rateLog'.calls[Len(rateLog'.calls)]
            kept == SelectSeq(bucketOf(store, call.key),
                              LAMBDA ts : ts >= call.now - rateLog.window)
        IN  /\ ~call.ok => bucketOf(store', call.key) = kept
            /\ call.ok => bucketOf(store', call.key) = Append(kept, call.now)
            /\ \A other \in Keys \ {call.key} :
                  /\ bucketOf(store', other) = bucketOf(store, other)
                  /\ other \in DOMAIN store'.rateBuckets <=> other \in DOMAIN store.rateBuckets]_vars

\* C19 witness: a call for one key was just refused, its bucket still holding
\* only the earlier allowed call, while the other key's bucket holds a call too.
C19_Witness ==
    /\ Len(rateLog.calls) = 3
    /\ rateLog.limit = 1
    /\ ~rateLog.calls[3].ok
    /\ rateLog.calls[3].now > rateLog.calls[1].now
    /\ rateLog.calls[1].key = rateLog.calls[3].key
    /\ rateLog.calls[2].key # rateLog.calls[3].key
    /\ bucketOf(store, rateLog.calls[3].key) = <<rateLog.calls[1].now>>
    /\ bucketOf(store, rateLog.calls[2].key) = <<rateLog.calls[2].now>>

(***************************************************************************)
(* Errors of the probes and of the status request.                         *)
(***************************************************************************)
\* C21: a probe failure never becomes an error of the status endpoint: when
\* the target list was fetched, the request answers 200 with one entry per
\* target whatever transport errors, timeouts and codes >= 400 the probes
\* met (a 500 comes from the fetch only), and a probe whose last attempt
\* failed is classified DOWN and appended to its target's history as an
\* ordinary record, the one the response entry shows.
C21_ProbeFailureIsADownRecord ==
    /\ \A r \in Requests :
          LET q == requests[r]
          IN  /\ q.code = 500 => (q.fetch.err \/ q.fetch.code >= HttpErrorFloor)
              /\ (q.pc = "done" /\ ~q.fetch.err /\ q.fetch.code < HttpErrorFloor) =>
                    /\ q.code = 200
                    /\ Len(q.body) = Len(q.fetch.projects)
                    /\ \A i \in 1..Len(q.body) :
                          /\ q.body[i].ID = q.fetch.projects[i].ID
                          /\ workerOf(r, i).recorded # <<>>
                          /\ q.body[i].Status = workerOf(r, i).recorded[1].Status
    /\ \A w \in Workers :
          /\ (classified(w) /\ failedAttempt(workers[w].seen.last)) =>
                /\ workers[w].check.Status = "DOWN"
                /\ workers[w].check.Error = workers[w].seen.last.err
          /\ workers[w].pc \in {"prev", "last", "incident", "unlock", "finish"} =>
                workers[w].recorded = <<workers[w].check>>
          /\ workers[w].recorded # <<>> =>
                /\ Len(workers[w].recorded) = 1
                /\ workers[w].recorded[1].Status \in Statuses
                /\ \E t \in Targets : \E i \in 1..Len(appended[t]) :
                      appended[t][i] = workers[w].recorded[1]

\* C21 witness: a request answered 200 although the probe of its target ended
\* in a timeout, which the history holds as a DOWN record.
C21_Witness ==
    /\ responded(1)
    /\ Len(requests[1].body) = 1
    /\ requests[1].body[1].Status = "DOWN"
    /\ workers[<<1, 1>>].recorded # <<>>
    /\ workers[<<1, 1>>].recorded[1].Error = "timeout"
    /\ workers[<<1, 1>>].recorded[1].Status = "DOWN"
    /\ historyOf("a") = workers[<<1, 1>>].recorded

(***************************************************************************)
(* Cancellation and termination.                                           *)
(***************************************************************************)
\* C22: a caller that disconnects before the join stops no probe: every
\* worker a status request has launched eventually finishes, and a finished
\* worker has appended exactly one record to the history of its target,
\* whether or not the caller is still connected.
C22_DisconnectStopsNoProbe ==
    /\ [](\A w \in Workers :
            workers[w].pc \in {"finish", "done"} =>
                /\ Len(workers[w].recorded) = 1
                /\ \E i \in 1..Len(appended[requests[w[1]].projects[w[2]].ID]) :
                      appended[requests[w[1]].projects[w[2]].ID][i] = workers[w].recorded[1])
    /\ \A w \in Workers : (workers[w].pc = "loop") ~> (workers[w].pc = "done")

\* C22 witness: a worker that was in flight when its caller hung up has
\* finished with its one record, and the request has got past the join.
C22_Witness ==
    /\ ~requests[1].connected
    /\ requests[1].pc = "done"
    /\ workers[<<1, 1>>].orphaned
    /\ workers[<<1, 1>>].pc = "done"
    /\ Len(workers[<<1, 1>>].recorded) = 1

\* C23: when every attempt returns and the lock is granted fairly, every
\* status request terminates: a worker makes at most PingRetries attempts and
\* sleeps at most PingRetries - 1 retry delays, every launched worker reaches
\* the join, and a request that was accepted eventually has its response.
C23_RequestTerminates ==
    /\ [](\A w \in Workers :
            /\ workers[w].seen.n <= cfg.PingRetries
            /\ workers[w].seen.sleeps <= cfg.PingRetries - 1
            /\ workers[w].seen.sleeps <= workers[w].seen.n)
    /\ \A r \in Requests :
          (requests[r].pc \in {"dispatch", "wait"}) ~> (requests[r].pc = "done")

\* C23 witness: a worker that made two failed attempts with one retry delay
\* between them waits for the lock that the other request's worker holds.
C23_Witness ==
    /\ cfg.PingRetries = 2
    /\ classified(<<1, 1>>)
    /\ workers[<<1, 1>>].seen.n = 2
    /\ workers[<<1, 1>>].seen.failed = 2
    /\ workers[<<1, 1>>].seen.sleeps = 1
    /\ store.mu = <<2, 1>>

(***************************************************************************)
(* The last-status table and the incidents it gives rise to.               *)
(***************************************************************************)
\* The worker that has written the history of target t and not yet its last
\* status; it holds the lock.
midCheck(t) == {w \in Workers : workers[w].pc \in {"prev", "last"} /\ projectOf(w).ID = t}

\* C24: lastStatusByID has an entry for a target exactly when the target has
\* been checked at least once, and the entry is the status of the record
\* appended last to that target's history. (Between the two assignments of
\* one addCheck the table is one record behind; the lock is held then, so no
\* reader sees it.)
C24_LastStatusIsNewestRecord ==
    \A t \in Targets :
        IF midCheck(t) # {}
        THEN midCheck(t) = {store.mu}
        ELSE /\ t \in DOMAIN store.lastStatusByID <=> appended[t] # <<>>
             /\ appended[t] # <<>> =>
                   /\ store.lastStatusByID[t] = appended[t][Len(appended[t])].Status
                   /\ store.lastStatusByID[t] = historyOf(t)[Len(historyOf(t))].Status

\* C24 witness: target "a" was checked twice with different results and "b"
\* never; the table holds the second status of "a" and nothing for "b".
C24_Witness ==
    /\ store.mu = NoOne
    /\ Len(appended["a"]) = 2
    /\ appended["a"][1].Status = "HEALTHY"
    /\ appended["a"][2].Status = "DOWN"
    /\ store.lastStatusByID["a"] = "DOWN"
    /\ appended["b"] = <<>>
    /\ "b" \notin DOMAIN store.lastStatusByID

\* The fixed message of each status, as the incidents are to carry it.
messageFor(status) ==
    CASE status = "DOWN" -> "Service went DOWN"
      [] status = "HEALTHY" -> "Service recovered"
      [] status = "DEGRADED" -> "Service is DEGRADED"

\* The incidents created so far for target t, oldest first.
incidentsOf(t) == SelectSeq(created, LAMBDA inc : inc.ProjectID = t)

\* C25: an incident carries the new status of the check that caused it and
\* the fixed message of that status (DOWN: went DOWN, HEALTHY: recovered,
\* DEGRADED: is DEGRADED), and one check creates at most one incident; so when
\* the last three checks of a target found it HEALTHY, DOWN, HEALTHY, the two
\* incidents created last for it are a DOWN one saying it went DOWN and then a
\* HEALTHY one saying it recovered, and they are all that the two changes
\* created.
C25_IncidentStatusAndMessage ==
    /\ \A j \in 1..Len(created) :
          /\ created[j].Status \in Statuses
          /\ created[j].Message = messageFor(created[j].Status)
    /\ ret # <<>> =>
          /\ created # <<>>
          /\ ret[1] = created[Len(created)]
          /\ \E t \in Targets :
                /\ appended[t] # <<>>
                /\ ret[1].ProjectID = t
                /\ ret[1].Status = appended[t][Len(appended[t])].Status
    /\ \A t \in Targets :
          LET N == Len(appended[t])
              incs == incidentsOf(t)
              n == Len(incs)
          IN  /\ n = Cardinality(transitionsOf(t))
              /\ (/\ N >= 3
                  /\ appended[t][N - 2].Status = "HEALTHY"
                  /\ appended[t][N - 1].Status = "DOWN"
                  /\ appended[t][N].Status = "HEALTHY") =>
                    /\ n >= 2
                    /\ incs[n - 1].Status = "DOWN"
                    /\ incs[n - 1].Message = "Service went DOWN"
                    /\ incs[n].Status = "HEALTHY"
                    /\ incs[n].Message = "Service recovered"
                    /\ n - 2 = Cardinality({i \in transitionsOf(t) : i < N - 2})

\* C25 witness: after a check that found "a" HEALTHY, the two observed checks
\* found it DOWN and HEALTHY again, and each returned its incident.
C25_Witness ==
    /\ calls = 2
    /\ Len(appended["a"]) >= 3
    /\ appended["a"][Len(appended["a"]) - 2].Status = "HEALTHY"
    /\ appended["a"][Len(appended["a"]) - 1].Status = "DOWN"
    /\ appended["a"][Len(appended["a"])].Status = "HEALTHY"
    /\ Len(created) >= 2
    /\ created[Len(created) - 1].Message = "Service went DOWN"
    /\ created[Len(created)].Message = "Service recovered"
    /\ ret = <<created[Len(created)]>>

(***************************************************************************)
(* The confirm store file.                                                 *)
(***************************************************************************)
\* Two spellings of one address: equal up to case and surrounding blanks.
sameEmail(e1, e2) == normalizeEmail(e1) = normalizeEmail(e2)

\* C26: when no read or write of the Store's file has failed, a new Store
\* built on the same path reports isConfirmed(e) true exactly for the e-mails
\* that were confirmed before (given to markConfirmed, or loaded when the
\* Store was built), compared without regard to case and surrounding blanks;
\* and that is what the running Store reports too.
C26_ReloadGivesSameSet ==
    ~disk.failed =>
        \A e \in Emails :
            /\ isConfirmed(NewStoreOn(disk, TRUE), e) <=>
                  \E m \in disk.marked : sameEmail(m, e)
            /\ isConfirmed(NewStoreOn(disk, TRUE), e) <=> isConfirmed(store, e)

\* C26 witness: two addresses were confirmed, one of them spelt " A@x.io ",
\* every write succeeded, and the file holds both.
C26_Witness ==
    /\ ~disk.failed
    /\ clients[Reader].op = "markConfirmed"
    /\ disk.marked = {" A@x.io ", "b@x.io"}
    /\ disk.file.state = "complete"
    /\ DOMAIN disk.file.data = {"a@x.io", "b@x.io"}
    /\ isConfirmed(NewStoreOn(disk, TRUE), "a@x.io")

\* C27: the file at the confirm store path is either absent or a complete
\* snapshot, never a partly written one, whatever crash or failed write of the
\* temporary file happened.
C27_FileAbsentOrComplete == disk.file.state \in {"absent", "complete"}

\* C28: loading never fails the process and a failed write is ignored: a
\* Store built over a missing, unreadable or unparseable file is the empty
\* Store; the lock is free between calls and markConfirmed can be called for
\* every address; after markConfirmed(e) the Store reports e confirmed however
\* the write and the rename ended; isConfirmed answers from the map.
C28_LoadAndWriteFailuresIgnored ==
    LET last == clients[Reader]
    IN  /\ store.mu = NoOne
        /\ \A e \in Emails : ENABLED MarkConfirmed(e)
        /\ (last.op \in {"restart", "crash"}
              /\ (last.out = FALSE \/ disk.file.state # "complete")) => store = NewStore
        /\ last.op = "markConfirmed" =>
              \A e \in Emails : sameEmail(e, last.arg) => isConfirmed(store, e)
        /\ last.op = "isConfirmed" =>
              (last.out <=> \E k \in DOMAIN store.confirmedEmails : sameEmail(k, last.arg))

\* C28 witness: a Store was built over a file that is no JSON document and
\* is empty; before that a write had failed and been ignored.
C28_Witness ==
    /\ clients[Reader].op = "restart"
    /\ clients[Reader].out = TRUE
    /\ disk.file.state = "partial"
    /\ store = NewStore

(***************************************************************************)
(* Confirmation tokens.                                                    *)
(***************************************************************************)
\* A token as the claim describes an acceptable one, at instant now: two
\* parts, the second decoding to the MAC of the first under the server's
\* secret, the first decoding to a payload with a positive expiry that has not
\* passed and an e-mail that is not blank.
authentic(token, now) ==
    /\ token.parts = 2
    /\ token.sig.valid
    /\ token.sig.bytes.key = cfg.ConfirmTokenSecret
    /\ token.sig.bytes.over = token.msg
    /\ token.msg.form = "b64json"
    /\ token.msg.payload.Exp > 0
    /\ token.msg.payload.Exp >= now
    /\ token.msg.payload.Email \notin {"", "  "}

\* C29 as stated: an accepted token is one whose payload and signature were
\* not altered, that is, the very text signConfirmToken made for its payload.
C29_AlteredTokenRejected ==
    LET last == clients[Reader]
    IN  (last.op = "confirm" /\ last.out.ok) =>
            last.arg = signConfirmToken(cfg.ConfirmTokenSecret, last.arg.msg.payload)

\* C29, amended: the token is accepted exactly when it has two parts, its
\* signature part decodes to the MAC of its payload part under the server's
\* secret, the payload decodes, the expiry is positive and not in the past and
\* the e-mail is not blank; an accepted token yields its payload and confirms
\* its e-mail, a rejected one is answered 400 and leaves the confirmed map as
\* it was; and verifying what signConfirmToken made for an unexpired payload
\* with a non-blank e-mail returns that payload.
C29_AcceptsIffAuthentic ==
    LET last == clients[Reader]
        secret == cfg.ConfirmTokenSecret
    IN  /\ \A p \in Payloads :
              (p.Exp > 0 /\ p.Exp >= clock /\ p.Email \notin {"", "  "}) =>
                  verifyConfirmToken(secret, signConfirmToken(secret, p), clock)
                      = [ok |-> TRUE, payload |-> p]
        /\ last.op = "confirm" =>
              /\ last.out.ok <=> authentic(last.arg, last.now)
              /\ last.out.ok =>
                    /\ last.out.code = 200
                    /\ last.out.payload = last.arg.msg.payload
                    /\ isConfirmed(store, last.out.payload.Email)
              /\ ~last.out.ok =>
                    /\ last.out.code = 400
                    /\ last.out.payload = NoPayload
                    /\ store.confirmedEmails = last.out.was

\* C29 witness: a token whose signature part was re-spelt with other unused
\* bits was accepted and confirmed its e-mail.
C29_Witness ==
    /\ clients[Reader].op = "confirm"
    /\ clients[Reader].out.ok
    /\ clients[Reader].arg.sig.spare = 1
    /\ clients[Reader].arg.msg.payload.Email = " A@x.io "
    /\ clients[Reader].out.was = EmptyMap
    /\ isConfirmed(store, "a@x.io")

(***************************************************************************)
(* Configuration.                                                          *)
(***************************************************************************)
\* The environments the claim lets through: both datastore settings given,
\* and every numeric setting either absent or a decimal text in its range
\* (the TTL is read after blanks around it are removed).
acceptable(env) ==
    /\ env.SUPABASE_URL # ""
    /\ env.SUPABASE_ANON_KEY # ""
    /\ env.PING_TIMEOUT_MS \in {"", "250"}
    /\ env.PING_RETRIES \in {"", "1", "5"}
    /\ env.PING_RETRY_DELAY_MS \in {"", "0", "10000"}
    /\ env.DEGRADED_LATENCY_MS \in {"", "800"}
    /\ env.CONFIRM_TOKEN_TTL_MINUTES \in {"", "  ", "5", " 30 ", "1440"}

\* C30: loadConfig returns no error exactly when the datastore URL and key
\* are non-empty and the timeout is > 0, the retries 1..5, the retry delay
\* 0..10000, the degraded threshold > 0 and the TTL 5..1440, absent settings
\* taking their defaults; on an error the process ends before it serves a
\* request; so a process that serves has PingRetries in 1..5 and each of its
\* probes makes at least one attempt.
C30_ConfigValidatedAtStart ==
    /\ loadConfig([e \in DOMAIN boot.env |->
            IF e \in {"SUPABASE_URL", "SUPABASE_ANON_KEY"} THEN boot.env[e] ELSE ""])
          \in {[err |-> "", cfg |-> DefaultConfig],
               configError("missing SUPABASE_URL or SUPABASE_ANON_KEY")}
    /\ boot.pc = "serving" <=> (boot.pc # "start" /\ acceptable(boot.env))
    /\ boot.pc = "exited" <=> boot.err # ""
    /\ boot.pc # "serving" =>
          /\ \A r \in Requests : requests[r] = IdleRequest
          /\ \A w \in Workers : workers[w] = IdleWorker
          /\ store = NewStore
    /\ boot.pc = "serving" =>
          /\ cfg.PingTimeout > 0
          /\ cfg.PingRetries \in MinRetries..MaxRetries
          /\ cfg.PingRetryDelay \in 0..MaxRetryDelayMs
          /\ cfg.DegradedMs > 0
          /\ cfg.ConfirmTokenTTLMinutes \in MinTTLMinutes..MaxTTLMinutes
          /\ boot.env.PING_TIMEOUT_MS = "" => cfg.PingTimeout = 5000
          /\ boot.env.PING_RETRIES = "" => cfg.PingRetries = 1
          /\ boot.env.PING_RETRY_DELAY_MS = "" => cfg.PingRetryDelay = 200
          /\ boot.env.DEGRADED_LATENCY_MS = "" => cfg.DegradedMs = 1200
          /\ boot.env.CONFIRM_TOKEN_TTL_MINUTES \in {"", "  "} => cfg.ConfirmTokenTTLMinutes = 30
          /\ \A w \in Workers :
                /\ classified(w) => workers[w].seen.n >= 1
                /\ workers[w].recorded # <<>> => workers[w].recorded[1].Status \in Statuses

\* C30 witness: a process started with PING_RETRIES=5 serves, and a probe of
\* it has made its five attempts.
C30_Witness ==
    /\ boot.pc = "serving"
    /\ boot.env.PING_RETRIES = "5"
    /\ boot.env.CONFIRM_TOKEN_TTL_MINUTES = "1440"
    /\ classified(<<1, 1>>)
    /\ workers[<<1, 1>>].seen.n = 5

(***************************************************************************)
(* The read endpoints.                                                     *)
(***************************************************************************)
\* The limit a query text asks for: its value when it is an integer of
\* 1..hi, the default in every other case.
askedLimit(text, default, hi) ==
    IF \E n \in Numerals : n.s = text /\ n.v \in 1..hi
    THEN (CHOOSE n \in Numerals : n.s = text).v
    ELSE default

\* C31: the history endpoint answers a missing or blank project id with a 4xx
\* and leaves the Store unchanged; otherwise it returns the newest records of
\* the target, at most limit of them, where limit is the query value when it
\* is an integer of 1..500 and 48 otherwise. The incidents endpoint returns
\* the newest incidents, at most limit of them, with the range 1..200 and the
\* default 50.
C31_ReadEndpointsLimit ==
    [][/\ justRead("history") =>
            LET q == clients'[Reader].out.query
                r == clients'[Reader].out.body
                limit == askedLimit(q.limit, 48, 500)
                h == historyOf(trimSpace(q.project_id))
            IN  /\ store' = store
                /\ q.project_id \in {"", "  "} => r.code \in 400..499 /\ r.items = <<>>
                /\ q.project_id \notin {"", "  "} =>
                      /\ r.code = 200
                      /\ Len(r.items) = Min(limit, Len(h))
                      /\ r.items = SubSeq(h, Len(h) - Len(r.items) + 1, Len(h))
       /\ justRead("incidents") =>
            LET q == clients'[Reader].out.query
                r == clients'[Reader].out.body
                limit == askedLimit(q.limit, 50, 200)
            IN  /\ store' = store
                /\ r.code = 200
                /\ Len(r.items) = Min(limit, Len(store.incidents))
                /\ r.items = SubSeq(store.incidents, 1, Len(r.items))]_vars

\* C31 witness: a history request with limit=501 was answered with 48 of the
\* 500 stored records.
C31_Witness ==
    /\ clients[Reader].op = "history"
    /\ clients[Reader].out.query = [project_id |-> " a ", limit |-> "501"]
    /\ Len(historyOf("a")) = HistoryCap
    /\ Len(clients[Reader].out.body.items) = 48
    /\ clients[Reader].out.body.items[48] = historyOf("a")[HistoryCap]

(***************************************************************************)
(* The lock and the disk.                                                  *)
(***************************************************************************)
\* C32: no Store operation touches the disk while it holds the lock: the
\* files of the confirmed-email snapshot change only in steps taken with the
\* lock free, so no addCheck waits for the lock behind a disk write.
C32_DiskWriteAfterUnlock ==
    [][(disk'.tmp # disk.tmp \/ disk'.file # disk.file) =>
            /\ store.mu = NoOne
            /\ store'.mu = NoOne]_vars

(***************************************************************************)
(* The order of the stored records.                                        *)
(***************************************************************************)
\* C33: in every reachable state the records of each target's stored history
\* are in non-decreasing timestamp order, also when two overlapping status
\* requests probe the same target.
C33_HistoryChronological ==
    \A t \in Targets :
        \A i \in 1..(Len(historyOf(t)) - 1) :
            historyOf(t)[i].TS <= historyOf(t)[i + 1].TS

(***************************************************************************)
(* The latency of a probe.                                                 *)
(***************************************************************************)
\* C34: the latency reported and recorded for a probe that ends HEALTHY or
\* DEGRADED is the duration of its successful (last) attempt alone: after
\* earlier failed attempts it is less than the time the probe took by their
\* durations and the retry delays slept, and DEGRADED is decided by comparing
\* that one duration with the threshold.
C34_LatencyOfSuccessfulAttempt ==
    \A w \in Workers :
        classified(w) /\ workers[w].check.Status \in {"HEALTHY", "DEGRADED"} =>
            LET seen == workers[w].seen
            IN  /\ ~failedAttempt(seen.last)
                /\ workers[w].check.LatencyMs = seen.last.ms
                /\ projectOf(w).Latency = seen.last.ms
                /\ seen.elapsed - seen.last.ms >= seen.sleeps * cfg.PingRetryDelay
                /\ seen.sleeps = IF cfg.PingRetryDelay > 0 THEN seen.failed ELSE 0
                /\ workers[w].check.Status = "DEGRADED" <=> seen.last.ms >= cfg.DegradedMs

\* C34 witness: a probe that took longer than the threshold in all (failed
\* attempts and delays included) is HEALTHY with the latency of its last
\* attempt.
C34_Witness ==
    \E w \in Workers :
        /\ classified(w)
        /\ workers[w].check.Status = "HEALTHY"
        /\ workers[w].seen.failed >= 2
        /\ workers[w].seen.sleeps >= 2
        /\ workers[w].seen.elapsed >= cfg.DegradedMs
        /\ workers[w].check.LatencyMs = workers[w].seen.last.ms
        /\ workers[w].check.LatencyMs < cfg.DegradedMs

(***************************************************************************)
(* Incidents and their notifiers.                                          *)
(***************************************************************************)
\* The workers whose addCheck has created an incident and that have not yet
\* reached the go statement.
aboutToNotify(x) ==
    {w \in Workers : workers[w].pc \in {"unlock", "finish"} /\ workers[w].incident = <<x>>}

\* C35: doWebhook is started exactly once for every incident addCheck
\* creates and never otherwise: every incident created has either its one
\* doWebhook, carrying that incident, or the worker that is about to start it,
\* there is no other doWebhook, and a check that caused no transition has no
\* incident to notify.
C35_OneNotifierPerIncident ==
    /\ \A n \in 1..Len(notified) : \E j \in 1..Len(created) : notified[n].incident = created[j]
    /\ \A j \in 1..Len(created) :
          LET x == created[j]
          IN  Cardinality({n \in 1..Len(notified) : notified[n].incident = x})
                + Cardinality(aboutToNotify(x))
                = Cardinality({k \in 1..Len(created) : created[k] = x})
    /\ \A w \in Workers :
          workers[w].pc \in {"unlock", "finish"} =>
              (workers[w].incident # <<>>
                  <=> isTransition(workers[w].ok, workers[w].prevStatus,
                                   workers[w].check.Status))

\* C35 witness: two checks of a target were recorded, the second of them a
\* transition, and exactly that one was notified, with the incident addCheck
\* returned.
C35_Witness ==
    /\ calls = 2
    /\ \A w \in Workers : workers[w].pc \in {"idle", "done"}
    /\ Len(appended["a"]) = 2
    /\ Len(created) = 1
    /\ Len(notified) = 1
    /\ notified[1].incident = created[1]
    /\ ret = <<created[1]>>

(***************************************************************************)
(* The result slots of a status request.                                   *)
(***************************************************************************)
\* C36: within one status request a result slot (status, latency) is written
\* only by the worker of its own target, in a step of that worker alone and
\* while the handler waits; the handler reads the slots only when every
\* worker of the request has signalled completion. So no slot is written by
\* two workers or read while a worker may still write it.
C36_SlotsWrittenByOwnerReadAfterJoin ==
    [][\A r \in Requests :
          /\ \A i \in 1..Len(requests[r].projects) :
                requests'[r].projects[i] # requests[r].projects[i] =>
                    /\ workers[<<r, i>>].pc = "loop"
                    /\ workers'[<<r, i>>].pc = "lock"
                    /\ \A v \in Workers \ {<<r, i>>} : workers'[v] = workers[v]
                    /\ requests[r].pc \in {"dispatch", "wait"}
                    /\ requests'[r].pc = requests[r].pc
                    /\ requests'[r].projects[i].ID = requests[r].projects[i].ID
          /\ (requests[r].pc # "done" /\ requests'[r].pc = "done" /\ requests'[r].code = 200) =>
                /\ requests'[r].body = requests[r].projects
                /\ requests'[r].projects = requests[r].projects
                /\ \A i \in 1..Len(requests[r].projects) : workers[<<r, i>>].pc = "done"
                /\ workers' = workers]_vars

\* C36 witness: the response of a request for two targets is out, with the
\* different results its two workers wrote.
C36_Witness ==
    /\ responded(1)
    /\ Len(requests[1].body) = 2
    /\ requests[1].body[1].Status = "HEALTHY"
    /\ requests[1].body[2].Status = "DOWN"
    /\ workers[<<1, 1>>].pc = "done"
    /\ workers[<<1, 2>>].pc = "done"

(***************************************************************************)
(* The response and the history agree.                                     *)
(***************************************************************************)
\* C37: for every target of a status request, the status and latency of the
\* CheckRecord this request appended to the target's history are those of
\* the target's result slot, and the response entry returns exactly them.
C37_ResponseEqualsRecord ==
    \A r \in Requests :
        \A i \in 1..Len(requests[r].projects) :
            LET w == workers[<<r, i>>]
                slot == requests[r].projects[i]
            IN  /\ w.recorded # <<>> =>
                      /\ w.recorded[1].Status = slot.Status
                      /\ w.recorded[1].LatencyMs = slot.Latency
                      /\ \E k \in 1..Len(appended[slot.ID]) :
                            appended[slot.ID][k] = w.recorded[1]
                /\ responded(r) =>
                      /\ w.recorded # <<>>
                      /\ requests[r].body[i].ID = slot.ID
                      /\ requests[r].body[i].Status = w.recorded[1].Status
                      /\ requests[r].body[i].Latency = w.recorded[1].LatencyMs

\* C37 witness: two overlapping requests probed the same target with
\* different results; each response reports the record its own request
\* appended.
C37_Witness ==
    /\ responded(1) /\ responded(2)
    /\ Len(requests[1].body) = 1 /\ Len(requests[2].body) = 1
    /\ requests[1].body[1].ID = "a" /\ requests[2].body[1].ID = "a"
    /\ requests[1].body[1].Status = "HEALTHY"
    /\ requests[1].body[1].Latency = 50
    /\ requests[2].body[1].Status = "DOWN"
    /\ requests[2].body[1].Latency = 0
    /\ Len(historyOf("a")) = 2
    /\ historyOf("a")[1] = workers[<<2, 1>>].recorded[1]
    /\ historyOf("a")[2] = workers[<<1, 1>>].recorded[1]

(***************************************************************************)
(* What the Store operations leave alone.                                  *)
(***************************************************************************)
\* C38: an addCheck for target A leaves the history and the LastStatus entry
\* of every other target as they were and changes the incident list, if at
\* all, by prepending A's new incident and trimming to 200; getHistory and
\* getIncidents change nothing in the Store, and the sequence they returned
\* stays what it was through later addCheck calls.
C38_FrameOfStoreOperations ==
    [][/\ calls' = calls + 1 =>
            \E a \in Targets :
                /\ appended'[a] # appended[a]
                /\ \A t \in Targets \ {a} :
                      /\ appended'[t] = appended[t]
                      /\ MapGet(store'.historyByID, t, <<>>) = historyOf(t)
                      /\ (t \in DOMAIN store'.lastStatusByID) = (t \in DOMAIN store.lastStatusByID)
                      /\ MapGet(store'.lastStatusByID, t, "") = MapGet(store.lastStatusByID, t, "")
                /\ \/ store'.incidents = store.incidents
                   \/ /\ ret' # <<>>
                      /\ ret'[1].ProjectID = a
                      /\ store'.incidents =
                            SubSeq(ret' \o store.incidents, 1,
                                   Min(Len(store.incidents) + 1, 200))
                /\ store'.confirmedEmails = store.confirmedEmails
                /\ store'.rateBuckets = store.rateBuckets
                /\ clients'[Reader].out = clients[Reader].out
       /\ (calls' = calls /\ clients'[Reader] # clients[Reader]) =>
            /\ store' = store
            /\ clients'[Reader].op = "readHistory" =>
                  clients'[Reader].out.items
                      = getHistory(store, clients'[Reader].arg, clients'[Reader].limit)
            /\ clients'[Reader].op = "readIncidents" =>
                  clients'[Reader].out.items = getIncidents(store, clients'[Reader].limit)]_vars

\* C38 witness: the caller still holds the two records it read from the
\* history of "a"; since then "a" and "b" have each taken a check, the one of
\* "a" with an incident that filled the list, and the history of "b" is its
\* one record.
C38_Witness ==
    /\ clients[Reader].op = "readHistory"
    /\ clients[Reader].arg = "a"
    /\ Len(clients[Reader].out.items) = 2
    /\ clients[Reader].out.items # getHistory(store, "a", 2)
    /\ calls = 2
    /\ Len(appended["b"]) = 1
    /\ historyOf("b") = appended["b"]
    /\ Len(store.incidents) = IncidentCap
    /\ store.incidents[1].ProjectID = "a"

(***************************************************************************)
(* The send-confirmation flow.                                             *)
(***************************************************************************)
\* The timestamps of a bucket that still count at time now.
liveSlots(s, key, window, now) ==
    SelectSeq(bucketOf(s, key), LAMBDA ts : ts >= now - window)

\* C39: a send-confirmation request for an already confirmed email returns
\* success, consumes no rate-limit slot and issues no token; for an
\* unconfirmed email the per-address limiter is asked first (a request it
\* refuses leaves the per-email bucket untouched), a request the per-email
\* limiter refuses has still taken a slot of the per-address window, and a
\* token is issued only when both limiters allowed.
C39_SendConfirmationFlow ==
    [][(clock' = clock /\ clients'[Reader].op = "send") =>
          LET body == clients'[Reader].arg
              resp == clients'[Reader].out
              now == clients'[Reader].now
              email == trimSpace(body.Email)
              valid == body.json /\ email \in {"A@x.io", "b@x.io"}
              ipk == ipKey("10.0.0.1")
              ipLive == liveSlots(store, ipk, 60000, now)
          IN  /\ store'.confirmedEmails = store.confirmedEmails
              /\ ~valid =>
                    /\ resp.code = 400 /\ resp.token = <<>>
                    /\ store'.rateBuckets = store.rateBuckets
              /\ valid /\ normalizeEmail(email) \in DOMAIN store.confirmedEmails =>
                    /\ resp.code = 200 /\ resp.alreadyConfirmed
                    /\ resp.token = <<>>
                    /\ store'.rateBuckets = store.rateBuckets
              /\ valid /\ normalizeEmail(email) \notin DOMAIN store.confirmedEmails =>
                    LET emk == emailKey(email)
                        emLive == liveSlots(store, emk, 600000, now)
                    IN  /\ ~resp.alreadyConfirmed
                        /\ Len(ipLive) >= 10 =>
                              /\ resp.code = 429 /\ resp.token = <<>>
                              /\ bucketOf(store', ipk) = ipLive
                              /\ bucketOf(store', emk) = bucketOf(store, emk)
                        /\ Len(ipLive) < 10 /\ Len(emLive) >= 5 =>
                              /\ resp.code = 429 /\ resp.token = <<>>
                              /\ bucketOf(store', ipk) = Append(ipLive, now)
                              /\ bucketOf(store', emk) = emLive
                        /\ Len(ipLive) < 10 /\ Len(emLive) < 5 =>
                              /\ resp.code \in {200, 500}
                              /\ resp.code = 200 <=> resp.token # <<>>
                              /\ bucketOf(store', ipk) = Append(ipLive, now)
                              /\ bucketOf(store', emk) = Append(emLive, now)
                        /\ resp.token # <<>> =>
                              /\ resp.token[1].msg.payload.Email = email
                              /\ Len(ipLive) < 10 /\ Len(emLive) < 5]_vars

\* C39 witness: the sixth request for an email inside its window was refused
\* with 429 and is the sixth slot of the address's window.
C39_Witness ==
    /\ clients[Reader].op = "send"
    /\ clients[Reader].arg.Email = "b@x.io"
    /\ clients[Reader].out.code = 429
    /\ Len(bucketOf(store, emailKey("b@x.io"))) = EmailLimit
    /\ Len(bucketOf(store, ipKey("10.0.0.1"))) = EmailLimit + 1
    /\ bucketOf(store, ipKey("10.0.0.1"))[EmailLimit + 1] = clients[Reader].now

====
